---- MODULE Spec2Model ----
(***************************************************************************)
(* Model of the two validation paths of OncoRAD: the regex-based one       *)
(* (src/src/oncorad/hallucination_checker.py: HallucinationChecker and     *)
(* ResponseSanitizer, specification Spec) and the LLM auditor              *)
(* (src/src/oncorad_rag/validator.py: ResponseValidator, specification     *)
(* ValidatorSpec).  The functions that keep no state between calls        *)
(* (check_factual_support, the two citation extractors, CitationVerifier,  *)
(* the risk classification of src/src/oncorad/prompt_generator.py) are     *)
(* called in specification CallSpec, and several callers share one checker *)
(* in specification ConcurrentSpec.                                        *)
(*                                                                         *)
(* Texts are TLA+ strings, handled character by character.  The source's   *)
(* non-ASCII characters are written with one ASCII stand-in each, none of  *)
(* which is a letter, a digit, white space or punctuation used by the      *)
(* patterns:  '@' is a-acute (Pag.), '~' is n-tilde (anos), '^' is         *)
(* u-acute (segun), '#' is the warning sign and '$' its variation          *)
(* selector (the emoji is two code points in Python), '&' is o-acute,      *)
(* '|' is i-acute, and in the validator's notes '+' is the check mark and  *)
(* '*' the ballot cross.                                                   *)
(* Scores are exact fractions [num, den] with den > 0.                     *)
(***************************************************************************)
EXTENDS Integers, Sequences, FiniteSets, TLC

VARIABLES strict_mode, pc, response_text, source_chunks, mode, result, sanitized

VARIABLES submitted, llm, query_response, validation_result, raised, llm_calls

VARIABLES arguments, returned, frames

checker_vars == <<strict_mode, pc, response_text, source_chunks, mode, result, sanitized>>

validator_vars == <<submitted, llm, query_response, validation_result, raised, llm_calls>>

call_vars == <<arguments, returned, frames>>

vars == <<checker_vars, validator_vars, call_vars>>

----------------------------------------------------------------------------
(* Policy constants of the source                                          *)

\* extract_claims: a sentence shorter than this is no claim
MinClaimLen == 10

\* check_factual_support: only words longer than this count
MinWordLen == 3

----------------------------------------------------------------------------
(* Characters and Python's str primitives                                  *)

Upper == {"A","B","C","D","E","F","G","H","I","J","K","L","M",
          "N","O","P","Q","R","S","T","U","V","W","X","Y","Z"}

Lower == {"a","b","c","d","e","f","g","h","i","j","k","l","m",
          "n","o","p","q","r","s","t","u","v","w","x","y","z"}

Digit == {"0","1","2","3","4","5","6","7","8","9"}

White == {" ", "\n", "\t"}

UpperSeq == "ABCDEFGHIJKLMNOPQRSTUVWXYZ"

LowerSeq == "abcdefghijklmnopqrstuvwxyz"

Ch(s, i) == IF i >= 1 /\ i <= Len(s) THEN SubSeq(s, i, i) ELSE ""

LowerOf == [c \in Upper |-> Ch(LowerSeq, CHOOSE k \in 1..26 : Ch(UpperSeq, k) = c)]

LowerCh(c) == IF c \in Upper THEN LowerOf[c] ELSE c

\* The scans below are written with bounded quantifiers, and the string
\* builders split their range in halves, so that no evaluation nests deeper
\* than the number of sentences, matches or digits of a text.

\* the greatest position of the set hits, none when it is empty
Greatest(hits, none) ==
    IF hits = {} THEN none ELSE CHOOSE k \in hits : \A m \in hits : k >= m

\* the position after the end of s, or i when i is further
After(s, i) == IF Len(s) + 1 > i THEN Len(s) + 1 ELSE i

RECURSIVE LowerRange(_, _, _)
LowerRange(s, i, j) ==
    IF i > j THEN ""
    ELSE IF i = j THEN LowerCh(Ch(s, i))
    ELSE LowerRange(s, i, (i + j) \div 2) \o LowerRange(s, ((i + j) \div 2) + 1, j)

\* str.lower()
StrLower(s) == LowerRange(s, 1, Len(s))

\* s[i:j] in Python terms, with 1-based inclusive bounds
Slice(s, i, j) == IF j < i THEN "" ELSE SubSeq(s, i, j)

\* s[:n]
Prefix(s, n) == IF Len(s) <= n THEN s ELSE SubSeq(s, 1, n)

\* s.startswith(lit, i-1)
StartsAt(s, i, lit) ==
    i >= 1 /\ i + Len(lit) - 1 <= Len(s) /\ Slice(s, i, i + Len(lit) - 1) = lit

\* s.find(sub, i-1) + 1, 0 when absent
FindFrom(s, sub, i) ==
    IF \E k \in i..(Len(s) - Len(sub) + 1) : StartsAt(s, k, sub)
    THEN CHOOSE k \in i..(Len(s) - Len(sub) + 1) :
             StartsAt(s, k, sub) /\ \A m \in i..(k - 1) : ~StartsAt(s, m, sub)
    ELSE 0

\* sub in s
Contains(s, sub) == \E k \in 1..(Len(s) - Len(sub) + 1) : StartsAt(s, k, sub)

RECURSIVE Interleave(_, _, _, _)
\* new before each of the characters s[i..j]
Interleave(s, new, i, j) ==
    IF i > j THEN ""
    ELSE IF i = j THEN new \o Ch(s, i)
    ELSE Interleave(s, new, i, (i + j) \div 2)
            \o Interleave(s, new, ((i + j) \div 2) + 1, j)

RECURSIVE ReplaceFrom(_, _, _, _)

\* f is the first occurrence of old at or after i (0: none)
ReplaceAt(s, old, new, i, f) ==
    IF f = 0 THEN Slice(s, i, Len(s))
    ELSE Slice(s, i, f - 1) \o new \o ReplaceFrom(s, old, new, f + Len(old))

ReplaceFrom(s, old, new, i) == ReplaceAt(s, old, new, i, FindFrom(s, old, i))

\* s.replace(old, new): every non-overlapping occurrence, left to right
\* (an empty old matches before every character and at the end)
Replace(s, old, new) ==
    IF old = "" THEN Interleave(s, new, 1, Len(s)) \o new
    ELSE ReplaceFrom(s, old, new, 1)

\* position after the longest run of characters of class cls starting at i
RunEnd(s, i, cls) ==
    IF \E k \in i..Len(s) : Ch(s, k) \notin cls
    THEN CHOOSE k \in i..Len(s) : Ch(s, k) \notin cls /\ \A m \in i..(k - 1) : Ch(s, m) \in cls
    ELSE After(s, i)

\* the first position from i on of a character of stops, the position after
\* the end of s when there is none
StopAt(s, i, stops) ==
    IF \E k \in i..Len(s) : Ch(s, k) \in stops
    THEN CHOOSE k \in i..Len(s) : Ch(s, k) \in stops /\ \A m \in i..(k - 1) : Ch(s, m) \notin stops
    ELSE After(s, i)

\* first position >= i that holds no white space (Len(s)+1 at the end)
SkipWhite(s, i) == RunEnd(s, i, White)

\* s.strip()
Strip(s) ==
    Slice(s, SkipWhite(s, 1), Greatest({k \in 1..Len(s) : Ch(s, k) \notin White}, 0))

\* position after the white-space-delimited word starting at i
WordEnd(s, i) == StopAt(s, i, White)

\* set(s.split()): the white-space-delimited words
WordSet(s) ==
    {Slice(s, b, WordEnd(s, b) - 1) :
        b \in {k \in 1..Len(s) : Ch(s, k) \notin White
                                    /\ (k = 1 \/ Ch(s, k - 1) \in White)}}

\* s.split()[0]
FirstWord(s) == Slice(s, SkipWhite(s, 1), WordEnd(s, SkipWhite(s, 1)) - 1)

\* {w for w in set(s.lower().split()) if len(w) > 3}
LongWords(s) == {w \in WordSet(StrLower(s)) : Len(w) > MinWordLen}

----------------------------------------------------------------------------
(* The regular expressions of HallucinationChecker.  A pattern is matched  *)
(* piece by piece: each piece takes the position reached so far and gives  *)
(* the position after it, 0 meaning that the match has failed.  Python's   *)
(* matcher backtracks, but in every pattern used here the pieces that      *)
(* follow one another use disjoint character classes, so the greedy        *)
(* choice is the only one that can succeed.                                *)

\* a literal
Lit(s, i, lit) == IF i # 0 /\ StartsAt(s, i, lit) THEN i + Len(lit) ELSE 0

\* (?:lit1|lit2|...), the alternatives starting with different characters
LitAny(s, i, lits) ==
    IF i # 0 /\ \E l \in lits : StartsAt(s, i, l)
    THEN i + Len(CHOOSE l \in lits : StartsAt(s, i, l))
    ELSE 0

\* one character of a class
One(s, i, cls) == IF i # 0 /\ Ch(s, i) \in cls THEN i + 1 ELSE 0

\* [cls]{n,}
RunN(s, i, cls, n) ==
    IF i # 0 /\ RunEnd(s, i, cls) - i >= n THEN RunEnd(s, i, cls) ELSE 0

\* \s*
Ws0(s, i) == RunN(s, i, White, 0)

\* \s+
Ws1(s, i) == RunN(s, i, White, 1)

\* (?:group)? at i, j being the position after the group (0: it is absent)
Opt(i, j) == IF j # 0 THEN j ELSE i

\* (?:a|b): the position after the first alternative that matches
Alt(a, b) == IF a # 0 THEN a ELSE b

\* lit? at i
OptLit(s, i, lit) == Opt(i, Lit(s, i, lit))

\* \d+(?:\.\d+)?
Num(s, i) == Opt(RunN(s, i, Digit, 1), RunN(s, Lit(s, RunN(s, i, Digit, 1), "."), Digit, 1))

\* a match: end is the position after it (0: no match), cap the group(s)
NoMatch == [end |-> 0, cap |-> ""]

\* the match that ends before e and whose group is s[b..c-1]
Group(s, b, c, e) == IF e = 0 THEN NoMatch ELSE [end |-> e, cap |-> Slice(s, b, c - 1)]

AlnumDash == Upper \cup Lower \cup Digit \cup {"-"}

\* ([A-Z][A-Za-z0-9\-]+) at b
StudyName(s, b) == Group(s, b, RunN(s, One(s, b, Upper), AlnumDash, 1),
                            RunN(s, One(s, b, Upper), AlnumDash, 1))

\* keyword\s+([A-Z][A-Za-z0-9\-]+)
MatchKeywordStudy(s, i, kw) == StudyName(s, Ws1(s, Lit(s, i, kw)))

\* the end of [A-Z]{2,}[\-\s]?\d{2,} at i
AcronymEnd(s, i) ==
    RunN(s, Opt(RunN(s, i, Upper, 2), One(s, RunN(s, i, Upper, 2), {"-"} \cup White)),
         Digit, 2)

\* ([A-Z]{2,}[\-\s]?\d{2,})
MatchAcronymStudy(s, i) == Group(s, i, AcronymEnd(s, i), AcronymEnd(s, i))

\* the number s[i..n-1], then \s*(?:lit1|lit2|...)
NumberThen(s, i, n, lits) == Group(s, i, n, LitAny(s, Ws0(s, n), lits))

\* (\d+(?:\.\d+)?)\s*(?:lit1|lit2|...)
MatchNumberThen(s, i, lits) == NumberThen(s, i, Num(s, i), lits)

\* (\d+(?:\.\d+)?) at b
NumberAt(s, b) == Group(s, b, Num(s, b), Num(s, b))

\* keyword\s*[ops]\s*(\d+(?:\.\d+)?)
MatchThenNumber(s, i, kw, ops) ==
    NumberAt(s, Ws0(s, One(s, Ws0(s, Lit(s, i, kw)), ops)))

\* \s+et\s+al at e
EtAl(s, e) == Lit(s, Ws1(s, Lit(s, Ws1(s, e), "et")), "al")

\* the author s[b..e-1], then (?:\s+et\s+al\.?)?, all of it captured
AuthorEtAl(s, b, e) ==
    Group(s, b, Opt(e, OptLit(s, EtAl(s, e), ".")), Opt(e, OptLit(s, EtAl(s, e), ".")))

\* (?:seg^n|por|de)\s+([A-Z][a-z]+(?:\s+et\s+al\.?)?)
MatchAuthorAfter(s, i) ==
    AuthorEtAl(s, Ws1(s, LitAny(s, i, {"seg^n", "por", "de"})),
               RunN(s, One(s, Ws1(s, LitAny(s, i, {"seg^n", "por", "de"})), Upper),
                    Lower, 1))

\* the author s[i..e-1], then \s+(?:y\s+col\.|et\s+al\.)
AuthorThen(s, i, e) ==
    Group(s, i, e, Alt(Lit(s, Ws1(s, Lit(s, Ws1(s, e), "y")), "col."),
                       Lit(s, EtAl(s, e), ".")))

\* ([A-Z][a-z]+)\s+(?:y\s+col\.|et\s+al\.)
MatchAuthorBefore(s, i) == AuthorThen(s, i, RunN(s, One(s, i, Upper), Lower, 1))

\* position after the longest run of [^,\]] starting at i
DocEnd(s, i) == StopAt(s, i, {",", "]"})

\* where the document group starts: at w, after the white space that follows
\* the label at a; when nothing but white space is left before e, \s* gives
\* its last character back
DocStart(a, w, e) == IF e > w THEN w ELSE IF w > a THEN w - 1 ELSE 0

\* the page digits s[pb..pe-1], then \]
CitationPage(s, b, e, pb, pe) ==
    IF Lit(s, pe, "]") = 0 THEN NoMatch
    ELSE [end |-> pe + 1, cap |-> <<Slice(s, b, e - 1), Slice(s, pb, pe - 1)>>]

\* ,\s*P@g\.?\s* at e: the position of the page digits
PageStart(s, e) == Ws0(s, OptLit(s, Lit(s, Ws0(s, Lit(s, e, ",")), "P@g"), "."))

\* the document s[b..e-1], then (?:,\s*P@g\.?\s*(\d+))?\]
CitationTail(s, b, e) ==
    IF b = 0 THEN NoMatch
    ELSE IF Ch(s, e) = "]" THEN [end |-> e + 1, cap |-> <<Slice(s, b, e - 1), "">>]
    ELSE CitationPage(s, b, e, PageStart(s, e), RunN(s, PageStart(s, e), Digit, 1))

\* the label ends before a, the white space after it before w
CitationDoc(s, a, w) ==
    IF a = 0 THEN NoMatch ELSE CitationTail(s, DocStart(a, w, DocEnd(s, w)), DocEnd(s, w))

\* CITATION_PATTERN  \[Fuente:\s*([^,\]]+)(?:,\s*P@g\.?\s*(\d+))?\]
\* cap is <<document, page>>, page "" when the group is absent
MatchCitation(s, i) == CitationDoc(s, Lit(s, i, "[Fuente:"), Ws0(s, Lit(s, i, "[Fuente:")))

\* The patterns of CitationVerifier.extract_citations, compiled with
\* re.IGNORECASE: their literals are matched on the lowercased text ls.

\* the ends of (?:p@gina|page|p\.?) at a, in the order the matcher tries them
KeywordEnds(ls, a) ==
    <<Lit(ls, a, "p@gina"), Lit(ls, a, "page"), Lit(ls, Lit(ls, a, "p"), "."),
      Lit(ls, a, "p")>>

\* \s*(\d+) and the closing literal after the keyword that ends before e:
\* the page digits are ls[b..e-1] and the match ends before end (0: none)
PageAfter(ls, e, close) ==
    [b |-> Ws0(ls, e), e |-> RunN(ls, Ws0(ls, e), Digit, 1),
     end |-> Lit(ls, RunN(ls, Ws0(ls, e), Digit, 1), close)]

\* no page
NoPage == [b |-> 0, e |-> 0, end |-> 0]

\* the first alternative of the keyword after which the rest matches
PageFrom(ls, ends, close) ==
    IF \E j \in 1..Len(ends) : PageAfter(ls, ends[j], close).end # 0
    THEN PageAfter(ls, ends[CHOOSE j \in 1..Len(ends) :
                               /\ PageAfter(ls, ends[j], close).end # 0
                               /\ \A m \in 1..(j - 1) : PageAfter(ls, ends[m], close).end = 0],
                   close)
    ELSE NoPage

\* ,\s*(?:p@gina|page|p\.?)\s*(\d+) and the closing literal, at the comma k
PageOf(ls, k, close) == PageFrom(ls, KeywordEnds(ls, Ws0(ls, Lit(ls, k, ","))), close)

\* the match whose document is s[b..c-1] and whose page is pg
Cited(s, b, c, pg) ==
    IF b = 0 \/ c <= b \/ pg.end = 0 THEN NoMatch
    ELSE [end |-> pg.end, cap |-> <<Slice(s, b, c - 1), Slice(s, pg.b, pg.e - 1)>>]

\* \(([^,]+),\s*(?:p@gina|page|p\.?)\s*(\d+)\)  at i: the document runs to the
\* first comma
MatchParenCitation(s, ls, i) ==
    Cited(s, Lit(s, i, "("), StopAt(s, i + 1, {","}),
          PageOf(ls, StopAt(s, i + 1, {","}), ")"))

\* the commas of the run of [^\]] that starts at b after which the rest of
\* the pattern matches
BracketCommas(s, ls, b) ==
    {k \in (b + 1)..(StopAt(s, b, {"]"}) - 1) :
        Ch(s, k) = "," /\ PageOf(ls, k, "]").end # 0}

\* \[([^\]]+),\s*(?:p@gina|page|p\.?)\s*(\d+)\]  at i: the document is given
\* back character by character down to the last comma that will do
MatchBracketCitation(s, ls, i) ==
    IF Lit(s, i, "[") = 0 \/ BracketCommas(s, ls, i + 1) = {} THEN NoMatch
    ELSE Cited(s, i + 1, Greatest(BracketCommas(s, ls, i + 1), 0),
               PageOf(ls, Greatest(BracketCommas(s, ls, i + 1), 0), "]"))

\* the label ends before a, the white space after it before w, and the
\* document runs to the first comma at c
LabelledDoc(s, ls, a, w, c) == Cited(s, DocStart(a, w, c), c, PageOf(ls, c, ""))

\* Fuente:\s*([^,]+),\s*(?:p@gina|page|p\.?)\s*(\d+)  at i
MatchLabelCitation(s, ls, i) ==
    IF Lit(ls, i, "fuente:") = 0 THEN NoMatch
    ELSE LabelledDoc(s, ls, i + 7, Ws0(s, i + 7), StopAt(s, i + 7, {","}))

\* the elements of a sequence
Range(seq) == {seq[n] : n \in 1..Len(seq)}

\* the patterns, in the order of the source's tables
STUDY_PATTERNS == <<"estudio", "trial", "ensayo", "acronym">>

AUTHOR_PATTERNS == <<"after", "before">>

STATISTIC_PATTERNS == <<"percent", "hr", "period", "pvalue">>

CITATION_PATTERN == "citation"

\* the list patterns of CitationVerifier.extract_citations
VERIFIER_PATTERNS == <<"paren", "bracket", "label">>

MatchAt(pat, s, i) ==
    CASE pat = "estudio" -> MatchKeywordStudy(s, i, "estudio")
      [] pat = "trial"   -> MatchKeywordStudy(s, i, "trial")
      [] pat = "ensayo"  -> MatchKeywordStudy(s, i, "ensayo")
      [] pat = "acronym" -> MatchAcronymStudy(s, i)
      [] pat = "after"   -> MatchAuthorAfter(s, i)
      [] pat = "before"  -> MatchAuthorBefore(s, i)
      [] pat = "percent" -> MatchNumberThen(s, i, {"%"})
      [] pat = "hr"      -> MatchThenNumber(s, i, "HR", {"=", ":"})
      [] pat = "period"  -> MatchNumberThen(s, i, {"a~os", "months", "years"})
      [] pat = "pvalue"  -> MatchThenNumber(s, i, "p", {"=", "<", ">"})
      [] pat = "citation" -> MatchCitation(s, i)
      [] pat = "paren"   -> MatchParenCitation(s, StrLower(s), i)
      [] pat = "bracket" -> MatchBracketCitation(s, StrLower(s), i)
      [] pat = "label"   -> MatchLabelCitation(s, StrLower(s), i)

Patterns ==
    {CITATION_PATTERN} \cup Range(STUDY_PATTERNS) \cup Range(STATISTIC_PATTERNS)
        \cup Range(AUTHOR_PATTERNS)

\* the characters a match of the pattern can start with
StartOf ==
    [pat \in Patterns \cup Range(VERIFIER_PATTERNS) |->
        CASE pat \in {"estudio", "ensayo"} -> {"e"}
          [] pat = "trial"   -> {"t"}
          [] pat \in {"acronym", "before"} -> Upper
          [] pat = "after"   -> {"s", "p", "d"}
          [] pat \in {"percent", "period"} -> Digit
          [] pat = "hr"      -> {"H"}
          [] pat = "pvalue"  -> {"p"}
          [] pat \in {"citation", "bracket"} -> {"["}
          [] pat = "paren"   -> {"("}
          [] pat = "label"   -> {"F", "f"}]

\* the pattern matches at k
MatchesAt(pat, s, k) == SubSeq(s, k, k) \in StartOf[pat] /\ MatchAt(pat, s, k).end # 0

RECURSIVE FindAllFrom(_, _, _)

\* the match m is found: its capture, then the matches after it
FindAllAfter(pat, s, m) == <<m.cap>> \o FindAllFrom(pat, s, m.end)

\* f is the first position at or after i where the pattern matches
FindAllAt(pat, s, f) ==
    IF f > Len(s) THEN <<>> ELSE FindAllAfter(pat, s, MatchAt(pat, s, f))

FindAllFrom(pat, s, i) ==
    FindAllAt(pat, s,
              IF \E k \in i..Len(s) : MatchesAt(pat, s, k)
              THEN CHOOSE k \in i..Len(s) :
                       MatchesAt(pat, s, k) /\ \A m \in i..(k - 1) : ~MatchesAt(pat, s, m)
              ELSE After(s, i))

\* re.findall(pattern, s): the captures of the non-overlapping matches
FindAll(pat, s) == FindAllFrom(pat, s, 1)

----------------------------------------------------------------------------
(* Numbers.  A float that the source computes from small integers is kept  *)
(* as the exact fraction [num, den]; the comparisons the source makes      *)
(* (>= 0.3, >= 0.6, > 0.3 * n) give the same answer on the doubles.        *)

Frac(n, d) == [num |-> n, den |-> d]

\* a >= b for fractions with positive denominators
FracGeq(a, b) == a.num * b.den >= b.num * a.den

\* the score left as computed, outside [0, 1] when the penalty exceeds the
\* verified share
Unclamped(a) == a

\* max(0.0, min(1.0, a))
Clamp01(a) == IF a.num < 0 THEN Frac(0, a.den)
              ELSE IF a.num > a.den THEN Frac(a.den, a.den)
              ELSE a

DigitSeq == "0123456789"

DigitVal(c) == (CHOOSE k \in 1..10 : Ch(DigitSeq, k) = c) - 1

RECURSIVE ParseNat(_, _)
\* int() of the digits s[:n], of which there are at most nine here: Python's
\* integers are unbounded, the model's are 32 bits wide
ParseNat(s, n) == IF n = 0 THEN 0 ELSE 10 * ParseNat(s, n - 1) + DigitVal(Ch(s, n))

RECURSIVE NatToStr(_)
NatToStr(n) == IF n < 10 THEN Ch(DigitSeq, n + 1)
               ELSE NatToStr(n \div 10) \o Ch(DigitSeq, (n % 10) + 1)

\* str(n)
IntToStr(n) == IF n < 0 THEN "-" \o NatToStr(0 - n) ELSE NatToStr(n)

\* int(v + delta), v being the float with integer part ip, whole telling
\* that its fraction is zero (int truncates toward zero)
TruncPlus(ip, whole, delta) ==
    IF ip + delta < 0 /\ ~whole THEN ip + delta + 1 ELSE ip + delta

\* the statistic  digits[.digits]  whose integer part has d digits
IntOfStatAt(stat, d, delta) ==
    TruncPlus(ParseNat(stat, d), \A k \in (d + 2)..Len(stat) : Ch(stat, k) = "0", delta)

\* int(float(stat) + delta)
IntOfStatPlus(stat, delta) == IntOfStatAt(stat, RunEnd(stat, 1, Digit) - 1, delta)

----------------------------------------------------------------------------
(* HallucinationChecker.extract_claims                                     *)

RECURSIVE SplitFrom(_, _)

\* f is the first separator at or after start
SplitAt(s, start, f) ==
    IF f > Len(s) THEN <<Slice(s, start, Len(s))>>
    ELSE <<Slice(s, start, f - 1)>> \o SplitFrom(s, SkipWhite(s, f + 1))

\* [.!?] at k with white space after it
SplitsAt(s, k) == Ch(s, k) \in {".", "!", "?"} /\ Ch(s, k + 1) \in White

SplitFrom(s, start) ==
    SplitAt(s, start,
            IF \E k \in start..Len(s) : SplitsAt(s, k)
            THEN CHOOSE k \in start..Len(s) :
                     SplitsAt(s, k) /\ \A m \in start..(k - 1) : ~SplitsAt(s, m)
            ELSE After(s, start))

\* re.split(r'[.!?]\s+', text)
SplitSentences(text) == SplitFrom(text, 1)

\* the dictionary extract_claims builds for one retained sentence; found[p]
\* is what re.findall gives for pattern p, and list(set(...)) is kept a set
ClaimRecord(sentence, found) ==
    [text |-> sentence,
     citations |-> found[CITATION_PATTERN],
     studies_mentioned |-> UNION {Range(found[p]) : p \in Range(STUDY_PATTERNS)},
     statistics |-> UNION {Range(found[p]) : p \in Range(STATISTIC_PATTERNS)},
     authors |-> UNION {Range(found[p]) : p \in Range(AUTHOR_PATTERNS)},
     has_citation |-> Len(found[CITATION_PATTERN]) > 0]

ClaimOf(sentence) ==
    ClaimRecord(sentence,
                [p \in Patterns |-> FindAll(p, sentence)])

\* the loop body: a stripped sentence shorter than 10 characters is skipped
ClaimIf(sentence) ==
    IF Len(sentence) < MinClaimLen THEN <<>> ELSE <<ClaimOf(sentence)>>

RECURSIVE ClaimsOf(_, _)
ClaimsOf(sentences, k) ==
    IF k > Len(sentences) THEN <<>>
    ELSE ClaimIf(Strip(sentences[k])) \o ClaimsOf(sentences, k + 1)

extract_claims(text) == ClaimsOf(SplitSentences(text), 1)

----------------------------------------------------------------------------
(* HallucinationChecker.verify_citations                                   *)
(* A source chunk is [document_name, page_number, text]; a field the       *)
(* chunk lacks is read with .get as '' (page_number: None, written 0).     *)

\* the document names, an absent one not left out
AvailableDocsAll(chunks) ==
    {StrLower(chunks[k].document_name) : k \in 1..Len(chunks)}

\* available_docs: the lowercased non-empty document names
AvailableDocs(chunks) ==
    {StrLower(chunks[k].document_name) :
        k \in {n \in 1..Len(chunks) : chunks[n].document_name # ""}}

\* doc_found for one citation tuple
DocCitedFound(doc_cited, available_docs) ==
    \E available_doc \in available_docs :
        Contains(available_doc, doc_cited) \/ Contains(doc_cited, available_doc)

DocFound(citation, available_docs) ==
    DocCitedFound(StrLower(Strip(citation[1])), available_docs)

\* f"{citation[0]}, P@g. {citation[1] or '?'}"
CitationLabel(citation) ==
    citation[1] \o ", P@g. " \o (IF citation[2] = "" THEN "?" ELSE citation[2])

RECURSIVE AllCitations(_, _)
\* every citation occurrence of every claim, in order
AllCitations(claims, k) ==
    IF k > Len(claims) THEN <<>> ELSE claims[k].citations \o AllCitations(claims, k + 1)

RECURSIVE CitationLabels(_, _, _, _)
\* the labels of the citations whose doc_found equals found, in order
CitationLabels(cits, docs, found, k) ==
    IF k > Len(cits) THEN <<>>
    ELSE (IF DocFound(cits[k], docs) = found
          THEN <<CitationLabel(cits[k])
                    \o (IF found THEN "" ELSE " (documento no encontrado)")>>
          ELSE <<>>)
         \o CitationLabels(cits, docs, found, k + 1)

VerifyAll(cits, docs) ==
    [valid |-> CitationLabels(cits, docs, TRUE, 1),
     invalid |-> CitationLabels(cits, docs, FALSE, 1)]

\* returns [valid, invalid]
verify_citations(claims, chunks) == VerifyAll(AllCitations(claims, 1), AvailableDocs(chunks))

----------------------------------------------------------------------------
(* HallucinationChecker.check_factual_support                              *)

\* default of the threshold parameter, 0.3
SupportThreshold == Frac(3, 10)

\* the score of one chunk; 0 when either word set is empty
ChunkScore(claim_words, chunk) ==
    IF claim_words = {} THEN 0 ELSE Cardinality(claim_words \cap LongWords(chunk.text))

\* the chunk scored last taken whatever its score
BetterOfLatest(best, score, chunk) ==
    [score |-> score, chunk |-> <<Prefix(chunk.text, 200)>>]

\* one pass of the loop over source_chunks: best is [score, chunk] so far
BetterOf(best, score, chunk) ==
    IF score > best.score THEN [score |-> score, chunk |-> <<Prefix(chunk.text, 200)>>]
    ELSE best

RECURSIVE BestFrom(_, _, _, _)
BestFrom(claim_words, chunks, k, best) ==
    IF k > Len(chunks) THEN best
    ELSE BestFrom(claim_words, chunks, k + 1,
                  BetterOf(best, ChunkScore(claim_words, chunks[k]), chunks[k]))

\* the returned triple; the score is overlap / len(claim_words)
SupportOf(best, den, threshold) ==
    [is_supported |-> FracGeq(Frac(best.score, den), threshold),
     score |-> Frac(best.score, den),
     chunk |-> best.chunk]

SupportOfWords(claim_words, chunks, threshold) ==
    SupportOf(BestFrom(claim_words, chunks, 1, [score |-> 0, chunk |-> <<>>]),
              IF claim_words = {} THEN 1 ELSE Cardinality(claim_words),
              threshold)

\* returns [is_supported, score, chunk]; chunk is <<>> for None
check_factual_support(claim_text, chunks, threshold) ==
    SupportOfWords(LongWords(claim_text), chunks, threshold)

----------------------------------------------------------------------------
(* HallucinationChecker.detect_potential_hallucinations                    *)

RECURSIVE JoinTexts(_, _)
\* " ".join(c.text for c in chunks)
JoinTexts(chunks, k) ==
    IF k > Len(chunks) THEN ""
    ELSE IF k = Len(chunks) THEN chunks[k].text
    ELSE chunks[k].text \o " " \o JoinTexts(chunks, k + 1)

SourceText(chunks) == StrLower(JoinTexts(chunks, 1))

\* author.lower().split()[0]
AuthorKey(author) == FirstWord(StrLower(author))

\* a statistic is unverified when neither the numeral nor int(value + delta),
\* delta in -1, 0, 1, occurs in the source text
StatUnverified(stat, source_text) ==
    /\ ~Contains(source_text, stat)
    /\ ~Contains(source_text, stat \o "%")
    /\ \A delta \in {-1, 0, 1} :
          ~Contains(source_text, IntToStr(IntOfStatPlus(stat, delta)))

\* the issues of one claim with the statistics checked in either mode
IssuesOfStrict(claim, source_text, strict) ==
    {<<"Estudio", st>> : st \in {x \in claim.studies_mentioned :
                                    ~Contains(source_text, StrLower(x))}}
    \cup
    {<<"Autor", au>> : au \in {x \in claim.authors :
                                    /\ ~Contains(source_text, AuthorKey(x))
                                    /\ Len(AuthorKey(x)) > 3}}
    \cup
    {<<"Estadistica", sx>> : sx \in {x \in claim.statistics :
                                    StatUnverified(x, source_text)}}

\* the issues of one claim, as <<kind, name>> pairs (the source joins their
\* messages in set-iteration order, which no caller depends on)
IssuesOf(claim, source_text, strict) ==
    {<<"Estudio", st>> : st \in {x \in claim.studies_mentioned :
                                    ~Contains(source_text, StrLower(x))}}
    \cup
    {<<"Autor", au>> : au \in {x \in claim.authors :
                                    /\ ~Contains(source_text, AuthorKey(x))
                                    /\ Len(AuthorKey(x)) > 3}}
    \cup
    {<<"Estadistica", sx>> : sx \in {x \in claim.statistics :
                                    strict /\ StatUnverified(x, source_text)}}

\* a claim with issues is reported, by its first 200 characters
HallucinationIf(claim, issues) ==
    IF issues = {} THEN <<>>
    ELSE <<[claim |-> Prefix(claim.text, 200),
            issues |-> issues,
            has_citation |-> claim.has_citation]>>

RECURSIVE HallucinationsFrom(_, _, _, _)
HallucinationsFrom(claims, source_text, strict, k) ==
    IF k > Len(claims) THEN <<>>
    ELSE HallucinationIf(claims[k], IssuesOf(claims[k], source_text, strict))
         \o HallucinationsFrom(claims, source_text, strict, k + 1)

detect_potential_hallucinations(claims, chunks, strict) ==
    HallucinationsFrom(claims, SourceText(chunks), strict, 1)

----------------------------------------------------------------------------
(* HallucinationChecker.validate_response                                  *)

\* is_valid needs confidence_score >= 0.6
ConfidenceThreshold == Frac(6, 10)

\* ... and hallucination_count <= 2
MaxHallucinations == 2

\* ... and citation_error_count <= 1
MaxCitationErrors == 1

\* penalty per potential hallucination (0.15) and per citation error (0.1),
\* in hundredths
HallucinationPenalty == 15

CitationPenalty == 10

\* claims are listed in the result by their first 100 characters
ExcerptLen == 100

NoClaimsWarning == "No se pudieron extraer afirmaciones de la respuesta"

LowSupportWarning == "M@s del 30% de las afirmaciones no tienen soporte verificable"

\* the penalty added to the verified share where the source subtracts it
ConfidencePenaltyAdded(total_claims, verified_count, hallucination_count, citation_error_count) ==
    Clamp01(Frac(100 * verified_count
                   + (hallucination_count * HallucinationPenalty
                      + citation_error_count * CitationPenalty) * total_claims,
                 100 * total_claims))

\* a hallucination penalised like a citation error
ConfidenceEvenPenalty(total_claims, verified_count, hallucination_count, citation_error_count) ==
    Clamp01(Frac(100 * verified_count
                   - (hallucination_count * CitationPenalty
                      + citation_error_count * CitationPenalty) * total_claims,
                 100 * total_claims))

\* max(0.0, min(1.0, verified/total - (h * 0.15 + c * 0.1)))
Confidence(total_claims, verified_count, hallucination_count, citation_error_count) ==
    Clamp01(Frac(100 * verified_count
                   - (hallucination_count * HallucinationPenalty
                      + citation_error_count * CitationPenalty) * total_claims,
                 100 * total_claims))

\* a claim verified by its word overlap alone, its citations left out
IsSupportedOnly(claim, chunks) ==
    check_factual_support(claim.text, chunks, SupportThreshold).is_supported

\* a claim goes to verified_claims when this holds, else to unverified_claims
IsVerified(claim, chunks) ==
    check_factual_support(claim.text, chunks, SupportThreshold).is_supported
        \/ claim.has_citation

RECURSIVE ClaimTexts(_, _, _, _)
\* claim['text'][:100] of the claims whose flag equals want, in order
ClaimTexts(claims, flags, want, k) ==
    IF k > Len(claims) THEN <<>>
    ELSE (IF flags[k] = want THEN <<Prefix(claims[k].text, ExcerptLen)>> ELSE <<>>)
         \o ClaimTexts(claims, flags, want, k + 1)

\* one entry of potential_hallucinations: the string
\*   f"{h['claim'][:100]}... - Problemas: {', '.join(h['issues'])}"
\* kept as its head (up to the colon) and the issues that follow it
HallucinationEntry(h) ==
    [head |-> Prefix(h.claim, ExcerptLen) \o "... - Problemas: ", issues |-> h.issues]

\* the no-claims result with is_valid turned off
NoClaimsInvalid ==
    [is_valid |-> FALSE,
     confidence_score |-> Frac(1, 2),
     verified_claims |-> <<>>,
     unverified_claims |-> <<>>,
     potential_hallucinations |-> <<>>,
     citation_errors |-> <<>>,
     warnings |-> <<NoClaimsWarning>>]

\* the result on the path where no claim is extracted
NoClaimsResult ==
    [is_valid |-> TRUE,
     confidence_score |-> Frac(1, 2),
     verified_claims |-> <<>>,
     unverified_claims |-> <<>>,
     potential_hallucinations |-> <<>>,
     citation_errors |-> <<>>,
     warnings |-> <<NoClaimsWarning>>]

\* no warning appended at all
NoWarnings(total_claims, unverified_count, hallucination_count, citation_error_count) ==
    <<>>

\* the count messages only, the low-support warning left out
CountWarnings(total_claims, unverified_count, hallucination_count, citation_error_count) ==
    (IF hallucination_count > 0
     THEN <<"Se detectaron " \o IntToStr(hallucination_count) \o " posibles alucinaciones">>
     ELSE <<>>)
    \o (IF citation_error_count > 0
        THEN <<"Se encontraron " \o IntToStr(citation_error_count) \o " errores de cita">>
        ELSE <<>>)

\* the warnings, appended in this order
Warnings(total_claims, unverified_count, hallucination_count, citation_error_count) ==
    (IF hallucination_count > 0
     THEN <<"Se detectaron " \o IntToStr(hallucination_count) \o " posibles alucinaciones">>
     ELSE <<>>)
    \o (IF citation_error_count > 0
        THEN <<"Se encontraron " \o IntToStr(citation_error_count) \o " errores de cita">>
        ELSE <<>>)
    \o (IF 10 * unverified_count > 3 * total_claims THEN <<LowSupportWarning>> ELSE <<>>)

\* is_valid decided by the two counts, the confidence test left out
ValidityByCounts(confidence_score, hallucination_count, citation_error_count) ==
    /\ hallucination_count <= MaxHallucinations
    /\ citation_error_count <= MaxCitationErrors

\* is_valid decided by the confidence, the two count tests left out
ValidityByConfidence(confidence_score, hallucination_count, citation_error_count) ==
    FracGeq(confidence_score, ConfidenceThreshold)

\* is_valid
Validity(confidence_score, hallucination_count, citation_error_count) ==
    /\ FracGeq(confidence_score, ConfidenceThreshold)
    /\ hallucination_count <= MaxHallucinations
    /\ citation_error_count <= MaxCitationErrors

\* the result once the lists are filled and the score is computed
ScoredResult(total_claims, citation_errors, verified_claims, unverified_claims, entries, confidence_score) ==
    [is_valid |-> Validity(confidence_score, Len(entries), Len(citation_errors)),
     confidence_score |-> confidence_score,
     verified_claims |-> verified_claims,
     unverified_claims |-> unverified_claims,
     potential_hallucinations |-> entries,
     citation_errors |-> citation_errors,
     warnings |-> Warnings(total_claims, Len(unverified_claims), Len(entries),
                           Len(citation_errors))]

FilledResult(total_claims, citation_errors, verified_claims, unverified_claims, entries) ==
    ScoredResult(total_claims, citation_errors, verified_claims, unverified_claims,
                 entries,
                 Confidence(total_claims, Len(verified_claims), Len(entries),
                            Len(citation_errors)))

\* flags[k] tells whether claims[k] is verified
ClaimsResult(claims, chunks, flags, hallucinations) ==
    FilledResult(Len(claims),
                 verify_citations(claims, chunks).invalid,
                 ClaimTexts(claims, flags, TRUE, 1),
                 ClaimTexts(claims, flags, FALSE, 1),
                 [n \in 1..Len(hallucinations) |-> HallucinationEntry(hallucinations[n])])

ValidateClaims(claims, chunks, strict) ==
    IF claims = <<>> THEN NoClaimsResult
    ELSE ClaimsResult(claims, chunks,
                      [k \in 1..Len(claims) |-> IsVerified(claims[k], chunks)],
                      detect_potential_hallucinations(claims, chunks, strict))

validate_response(text, chunks, strict) ==
    ValidateClaims(extract_claims(text), chunks, strict)

----------------------------------------------------------------------------
(* ResponseSanitizer.sanitize                                              *)

Banner(n) ==
    "\n#$ ADVERTENCIA: Esta respuesta contiene " \o IntToStr(n) \o " afirmaciones "
    \o "que no pudieron ser completamente verificadas contra las fuentes.\n\n"

Marker == " [#$ NO VERIFICADO]"

Placeholder == "[Contenido eliminado por falta de verificaci&n]."

\* hallucination.split("...")[0]
ClaimTextOf(entry) == Slice(entry.head, 1, FindFrom(entry.head, "...", 1) - 1)

\* one pass of the loop of mode "annotate"
AnnotateOne(text, claim_text) ==
    IF Contains(text, claim_text) THEN Replace(text, claim_text, claim_text \o Marker)
    ELSE text

RECURSIVE Annotate(_, _, _)
Annotate(text, entries, k) ==
    IF k > Len(entries) THEN text
    ELSE Annotate(AnnotateOne(text, ClaimTextOf(entries[k])), entries, k + 1)

\* one pass of the loop of mode "remove"
RemoveOne(text, claim_text) ==
    IF Contains(text, claim_text) THEN Replace(text, claim_text \o ".", Placeholder)
    ELSE text

RECURSIVE Remove(_, _, _)
Remove(text, entries, k) ==
    IF k > Len(entries) THEN text
    ELSE Remove(RemoveOne(text, ClaimTextOf(entries[k])), entries, k + 1)

\* mode "flag" putting the banner in front of every answer that is not
\* returned at once, the test for hallucinations left out
SanitizedFlagsInvalid(text, mode_, validation, entries) ==
    IF validation.is_valid /\ entries = <<>> THEN text
    ELSE IF mode_ = "flag" THEN Banner(Len(entries)) \o text
    ELSE IF mode_ = "annotate" THEN Annotate(text, entries, 1)
    ELSE IF mode_ = "remove" THEN Remove(text, entries, 1)
    ELSE text

\* the early return taken for every valid answer, with hallucinations or not
SanitizedValidUntouched(text, mode_, validation, entries) ==
    IF validation.is_valid THEN text
    ELSE IF mode_ = "flag"
    THEN (IF entries # <<>> THEN Banner(Len(entries)) \o text ELSE text)
    ELSE IF mode_ = "annotate" THEN Annotate(text, entries, 1)
    ELSE IF mode_ = "remove" THEN Remove(text, entries, 1)
    ELSE text

\* mode "flag" with neither the early return nor the test for hallucinations
\* in front of the banner
SanitizedAlwaysFlagged(text, mode_, validation, entries) ==
    IF mode_ = "flag" THEN Banner(Len(entries)) \o text
    ELSE IF validation.is_valid /\ entries = <<>> THEN text
    ELSE IF mode_ = "annotate" THEN Annotate(text, entries, 1)
    ELSE IF mode_ = "remove" THEN Remove(text, entries, 1)
    ELSE text

\* the text sanitize returns, given the validation of text
Sanitized(text, mode_, validation, entries) ==
    IF validation.is_valid /\ entries = <<>> THEN text
    ELSE IF mode_ = "flag"
    THEN (IF entries # <<>> THEN Banner(Len(entries)) \o text ELSE text)
    ELSE IF mode_ = "annotate" THEN Annotate(text, entries, 1)
    ELSE IF mode_ = "remove" THEN Remove(text, entries, 1)
    ELSE text

SanitizeWith(text, mode_, validation) ==
    [validation |-> validation,
     text |-> Sanitized(text, mode_, validation, validation.potential_hallucinations)]

\* returns [text, validation]
sanitize(text, chunks, mode_, strict) ==
    SanitizeWith(text, mode_, validate_response(text, chunks, strict))

----------------------------------------------------------------------------
(* oncorad_rag/validator.py: a second model audits the answer and replies  *)
(* with JSON text. A Python value is a record [kind, val]; a decoded       *)
(* object is a function from its keys to values.                           *)

PyStr(s) == [kind |-> "str", val |-> s]

PyNum(f) == [kind |-> "num", val |-> f]

PyBool(b) == [kind |-> "bool", val |-> b]

PyList(items) == [kind |-> "list", val |-> items]

PyDict(members) == [kind |-> "dict", val |-> members]

PyNone == [kind |-> "none", val |-> 0]

\* bool(v)
Truthy(v) ==
    CASE v.kind = "str" -> v.val # ""
      [] v.kind = "num" -> v.val.num # 0
      [] v.kind = "bool" -> v.val
      [] v.kind = "list" -> v.val # <<>>
      [] v.kind = "dict" -> DOMAIN v.val # {}
      [] v.kind = "none" -> FALSE

RECURSIVE Pow10(_)
Pow10(k) == IF k = 0 THEN 1 ELSE 10 * Pow10(k - 1)

\* the number written with the digits w, a point and the digits f
Decimal(w, f) == Frac(ParseNat(w \o f, Len(w) + Len(f)), Pow10(Len(f)))

\* the digits of s[i..j] are a number's: no leading zero, at most one point
\* with digits on both sides (d is the end of the digits before the point)
IsDecimalTo(s, i, j, d) ==
    /\ d > i
    /\ ~(Ch(s, i) = "0" /\ d > i + 1)
    /\ \/ d = j + 1
       \/ Ch(s, d) = "." /\ d < j /\ RunEnd(s, d + 1, Digit) = j + 1

\* its value
DecimalOf(s, i, j, d) ==
    IF d = j + 1 THEN Decimal(Slice(s, i, j), "")
    ELSE Decimal(Slice(s, i, d - 1), Slice(s, d + 1, j))

\* json.loads, for the JSON that holds objects, arrays, strings without
\* escapes, unsigned decimals without exponent, true, false and null: the
\* result [ok, val, end] of decoding the value that starts at s[i]
JFail == [ok |-> FALSE, val |-> PyNone, end |-> 0]

JOk(v, e) == [ok |-> TRUE, val |-> v, end |-> e]

\* a raw control character inside a string is a decoding error
JStringTo(s, i, e) ==
    IF Ch(s, e) = "\"" THEN JOk(PyStr(Slice(s, i + 1, e - 1)), e + 1) ELSE JFail

JString(s, i) ==
    IF Ch(s, i) = "\"" THEN JStringTo(s, i, StopAt(s, i + 1, {"\"", "\\", "\n", "\t"}))
    ELSE JFail

\* the number s[i..j-1], j being the end of its digits and point
JNumberTo(s, i, j, d) ==
    IF IsDecimalTo(s, i, j - 1, d) THEN JOk(PyNum(DecimalOf(s, i, j - 1, d)), j)
    ELSE JFail

JNumberAt(s, i, d) ==
    JNumberTo(s, i, IF Ch(s, d) = "." THEN RunEnd(s, d + 1, Digit) ELSE d, d)

JNumber(s, i) == JNumberAt(s, i, RunEnd(s, i, Digit))

RECURSIVE JValue(_, _)
RECURSIVE JItems(_, _, _, _)
RECURSIVE JMembers(_, _, _, _)

\* after an item r of an array: a comma and the next item, or the bracket
JItems(s, r, items, j) ==
    IF ~r.ok THEN JFail
    ELSE IF Ch(s, j) = "," THEN
        JItems(s, JValue(s, SkipWhite(s, j + 1)), Append(items, r.val),
               SkipWhite(s, JValue(s, SkipWhite(s, j + 1)).end))
    ELSE IF Ch(s, j) = "]" THEN JOk(PyList(Append(items, r.val)), j + 1)
    ELSE JFail

JArray(s, j) ==
    IF Ch(s, j) = "]" THEN JOk(PyList(<<>>), j + 1)
    ELSE JItems(s, JValue(s, j), <<>>, SkipWhite(s, JValue(s, j).end))

\* a member of an object: its key k, decoded, then a colon at c, then its
\* value; then a comma and the next member, or the brace. A key that comes
\* twice keeps its last value.
JMemberEnd(s, k, r, members, j) ==
    IF ~r.ok THEN JFail
    ELSE IF Ch(s, j) = "," THEN
        JMembers(s, JString(s, SkipWhite(s, j + 1)), (k.val.val :> r.val) @@ members,
                 SkipWhite(s, JString(s, SkipWhite(s, j + 1)).end))
    ELSE IF Ch(s, j) = "}" THEN JOk(PyDict((k.val.val :> r.val) @@ members), j + 1)
    ELSE JFail

JMembers(s, k, members, c) ==
    IF ~k.ok \/ Ch(s, c) # ":" THEN JFail
    ELSE JMemberEnd(s, k, JValue(s, SkipWhite(s, c + 1)), members,
                    SkipWhite(s, JValue(s, SkipWhite(s, c + 1)).end))

JObject(s, j) ==
    IF Ch(s, j) = "}" THEN JOk(PyDict(<<>>), j + 1)
    ELSE JMembers(s, JString(s, j), <<>>, SkipWhite(s, JString(s, j).end))

JValue(s, i) ==
    CASE Ch(s, i) = "{" -> JObject(s, SkipWhite(s, i + 1))
      [] Ch(s, i) = "[" -> JArray(s, SkipWhite(s, i + 1))
      [] Ch(s, i) = "\"" -> JString(s, i)
      [] Ch(s, i) \in Digit -> JNumber(s, i)
      [] StartsAt(s, i, "null") -> JOk(PyNone, i + 4)
      [] StartsAt(s, i, "true") -> JOk(PyBool(TRUE), i + 4)
      [] StartsAt(s, i, "false") -> JOk(PyBool(FALSE), i + 5)
      [] OTHER -> JFail

\* json.loads(s): the whole of s is one value
JsonEnd(s, r) == IF r.ok /\ SkipWhite(s, r.end) = Len(s) + 1 THEN r ELSE JFail

json_loads(s) == JsonEnd(s, JValue(s, SkipWhite(s, 1)))

\* re.search(r'\{[\s\S]*\}', s).group(): from the first opening brace to
\* the last closing brace after it, "" when there is no such pair
GroupFrom(s, a) ==
    IF a = 0 THEN "" ELSE Slice(s, a, Greatest({k \in a..Len(s) : Ch(s, k) = "}"}, 0))

json_match(s) == GroupFrom(s, FindFrom(s, "{", 1))

\* data.get(key, default)
Get(data, key, default) == IF key \in DOMAIN data THEN data[key] ELSE default

ValidationStatus == {"valid", "partially_valid", "invalid", "insufficient_evidence"}

\* the status string taken as it comes, whatever it says
StatusUnchecked(v) == IF v.kind = "str" THEN v.val ELSE "invalid"

\* ValidationStatus(status_str), INVALID on the ValueError
StatusOf(v) == IF v.kind = "str" /\ v.val \in ValidationStatus THEN v.val ELSE "invalid"

\* float(v) as [raised, val]: a number is kept, a string is read as a number
\* (ValueError when it is not one), None and the containers are a TypeError
FloatOfStr(s, j) ==
    IF IsDecimalTo(s, 1, j, RunEnd(s, 1, Digit))
    THEN [raised |-> "", val |-> DecimalOf(s, 1, j, RunEnd(s, 1, Digit))]
    ELSE [raised |-> "ValueError", val |-> Frac(0, 1)]

FloatOf(v) ==
    CASE v.kind = "num" -> [raised |-> "", val |-> v.val]
      [] v.kind = "bool" -> [raised |-> "", val |-> IF v.val THEN Frac(1, 1) ELSE Frac(0, 1)]
      [] v.kind = "str" -> FloatOfStr(Strip(v.val), Len(Strip(v.val)))
      [] OTHER -> [raised |-> "TypeError", val |-> Frac(0, 1)]

ValidationResult(status, confidence, grounded, ungrounded, corrected, reasoning) == [status |-> status, confidence_score |-> confidence, grounded_claims |-> grounded, ungrounded_claims |-> ungrounded, corrected_response |-> corrected, validation_reasoning |-> reasoning]

\* the verdict of lines 168-174, for a reply that could not be read
FallbackResult ==
    ValidationResult("invalid", Frac(0, 1), PyList(<<>>),
                     PyList(<<PyStr("Error al parsear la validaci&n")>>), PyNone,
                     PyStr("No se pudo parsear la respuesta del validador"))

NoVerdict == ValidationResult("", Frac(0, 1), PyNone, PyNone, PyNone, PyNone)

\* the result of a call: the exception that left it, "" when it returned
Returns(v) == [raised |-> "", result |-> v]

Raises(e) == [raised |-> e, result |-> NoVerdict]

\* the fields of the decoded object; the TypeError of float() is caught by
\* the handler of line 164, its ValueError is not
ParsedWith(data, confidence) ==
    IF confidence.raised = "TypeError" THEN Returns(FallbackResult)
    ELSE IF confidence.raised # "" THEN Raises(confidence.raised)
    ELSE Returns(ValidationResult(StatusOf(Get(data, "status", PyStr("invalid"))),
                                  confidence.val,
                                  Get(data, "grounded_claims", PyList(<<>>)),
                                  Get(data, "ungrounded_claims", PyList(<<>>)),
                                  Get(data, "corrected_response", PyNone),
                                  Get(data, "reasoning", PyStr(""))))

ParsedData(r) ==
    IF ~r.ok THEN Returns(FallbackResult)
    ELSE ParsedWith(r.val.val, FloatOf(Get(r.val.val, "confidence_score", PyNum(Frac(0, 1)))))

ParsedGroup(group) == IF group = "" THEN Returns(FallbackResult) ELSE ParsedData(json_loads(group))

\* as [raised, result]
_parse_validation_response(reply) == ParsedGroup(json_match(reply))

\* len(v), defined for the values that have one
HasLen(v) == v.kind \in {"list", "str", "dict"}

PyLen(v) ==
    CASE v.kind = "list" -> Len(v.val)
      [] v.kind = "str" -> Len(v.val)
      [] v.kind = "dict" -> Cardinality(DOMAIN v.val)

\* f"{x:.0%}": a hundred times x rounded to an integer, a tie to the even one
RoundHalfEven(n, d) ==
    IF 2 * (n % d) > d \/ (2 * (n % d) = d /\ (n \div d) % 2 = 1) THEN (n \div d) + 1
    ELSE n \div d

Percent(x) == IntToStr(RoundHalfEven(100 * x.num, x.den)) \o "%"

\* repr() of a string without a backslash: in single quotes, in double
\* quotes when it holds a single quote and no double one
StrRepr(s) ==
    IF Contains(s, "'") /\ ~Contains(s, "\"") THEN "\"" \o s \o "\""
    ELSE "'" \o Replace(s, "'", "\\'") \o "'"

RECURSIVE ReprOf(_)
RECURSIVE JoinRepr(_, _)

\* ", ".join(repr(x) for x in items[:n])
JoinRepr(items, n) ==
    IF n = 0 THEN ""
    ELSE IF n = 1 THEN ReprOf(items[1])
    ELSE JoinRepr(items, n - 1) \o ", " \o ReprOf(items[n])

\* repr(v), for strings, None, the booleans, whole numbers and lists of these
ReprOf(v) ==
    CASE v.kind = "str" -> StrRepr(v.val)
      [] v.kind = "none" -> "None"
      [] v.kind = "bool" -> IF v.val THEN "True" ELSE "False"
      [] v.kind = "num" /\ v.val.den = 1 -> IntToStr(v.val.num)
      [] v.kind = "list" -> "[" \o JoinRepr(v.val, Len(v.val)) \o "]"

\* f"{v}"
StrOf(v) == IF v.kind = "str" THEN v.val ELSE ReprOf(v)

InsufficientResult ==
    ValidationResult("insufficient_evidence", Frac(0, 1), PyList(<<>>), PyList(<<>>), PyNone,
                     PyStr("No hay fuentes disponibles para validar la respuesta."))

\* the model behind self.llm: complete() raises, or returns the reply
LlmReturns(reply) == [raised |-> "", reply |-> reply]

LlmRaises(e) == [raised |-> e, reply |-> ""]

\* the outcome of validate: [raised, result] and the calls made to the model
Audited(outcome, calls) == [raised |-> outcome.raised, result |-> outcome.result, llm_calls |-> calls]

\* validate without the test of lines 186-193: the model is asked even when
\* there is no passage to audit against
ValidateAlwaysAsks(qr, completion) ==
    IF completion.raised # "" THEN Audited(Raises(completion.raised), 1)
    ELSE Audited(_parse_validation_response(completion.reply), 1)

validate(qr, completion) ==
    IF qr.source_nodes = <<>> THEN Audited(Returns(InsufficientResult), 0)
    ELSE IF completion.raised # "" THEN Audited(Raises(completion.raised), 1)
    ELSE Audited(_parse_validation_response(completion.reply), 1)

\* the outcome of validate_and_correct: the exception that left it, the
\* QueryResponse object as the call leaves it, and the verdict
Refined(e, qr, v, calls) == [raised |-> e, query_response |-> qr, validation |-> v, llm_calls |-> calls]

ValidNote(v) ==
    "+ Respuesta validada con " \o Percent(v.confidence_score) \o " de confianza. "
    \o IntToStr(PyLen(v.grounded_claims)) \o " afirmaciones respaldadas."

CorrectedNote(v) ==
    "# Respuesta parcialmente v@lida. Corregida autom@ticamente. "
    \o "Afirmaciones no respaldadas eliminadas: " \o StrOf(v.ungrounded_claims)

PartialNote(v) ==
    "# Respuesta parcialmente v@lida (" \o Percent(v.confidence_score) \o "). "
    \o "Afirmaciones no respaldadas: " \o StrOf(v.ungrounded_claims)

RewrittenNote ==
    "* Respuesta original inv@lida. Se gener& versi&n corregida basada "
    \o "exclusivamente en las fuentes disponibles."

RefusalText ==
    "No se puede proporcionar una respuesta confiable. "
    \o "La informaci&n disponible en las gu|as cl|nicas es insuficiente "
    \o "para responder esta consulta con precisi&n. "
    \o "Raz&n: "

RefusalNote == "* Respuesta inv@lida - No fue posible generar una respuesta confiable"

InsufficientNote == "# Evidencia insuficiente en las fuentes disponibles."

Noted(qr, note) == [qr EXCEPT !.validation_notes = PyStr(note)]

Replaced(qr, response, note) == [qr EXCEPT !.response = response, !.validation_notes = PyStr(note)]

\* a valid verdict whose corrected answer is used when it has one
WhenValidCorrected(qr, v, calls) ==
    IF ~HasLen(v.grounded_claims) THEN Refined("TypeError", qr, v, calls)
    ELSE IF Truthy(v.corrected_response)
    THEN Refined("", Replaced(qr, v.corrected_response, ValidNote(v)), v, calls)
    ELSE Refined("", Noted(qr, ValidNote(v)), v, calls)

\* lines 232-237: len() of a value without a length is a TypeError
WhenValid(qr, v, calls) ==
    IF HasLen(v.grounded_claims) THEN Refined("", Noted(qr, ValidNote(v)), v, calls)
    ELSE Refined("TypeError", qr, v, calls)

\* lines 239-255
WhenPartiallyValid(qr, v, calls) ==
    IF Truthy(v.corrected_response)
    THEN Refined("", Replaced(qr, v.corrected_response, CorrectedNote(v)), v, calls)
    ELSE Refined("", Noted(qr, PartialNote(v)), v, calls)

\* lines 257-274: str + a value that is no string is a TypeError
WhenInvalid(qr, v, calls) ==
    IF Truthy(v.corrected_response)
    THEN Refined("", Replaced(qr, v.corrected_response, RewrittenNote), v, calls)
    ELSE IF v.validation_reasoning.kind = "str"
    THEN Refined("", Replaced(qr, PyStr(RefusalText \o v.validation_reasoning.val), RefusalNote), v, calls)
    ELSE Refined("TypeError", qr, v, calls)

\* lines 232-280, qr being the object after line 230
Corrected(qr, v, calls) ==
    CASE v.status = "valid" -> WhenValid(qr, v, calls)
      [] v.status = "partially_valid" -> WhenPartiallyValid(qr, v, calls)
      [] v.status = "invalid" -> WhenInvalid(qr, v, calls)
      [] OTHER -> Refined("", Noted(qr, InsufficientNote), v, calls)

\* line 230
Validated(qr) == [qr EXCEPT !.is_validated = TRUE]

\* line 230 placed before line 227: the object is marked before the audit
AfterValidateMarked(qr, a) ==
    IF a.raised # "" THEN Refined(a.raised, Validated(qr), a.result, a.llm_calls)
    ELSE Corrected(Validated(qr), a.result, a.llm_calls)

\* lines 227-282: an exception of validate leaves before line 230
AfterValidate(qr, a) ==
    IF a.raised # "" THEN Refined(a.raised, qr, a.result, a.llm_calls)
    ELSE Corrected(Validated(qr), a.result, a.llm_calls)

validate_and_correct(qr, completion) == AfterValidate(qr, validate(qr, completion))

----------------------------------------------------------------------------
(* oncorad_rag/validator.py: CitationVerifier                              *)

\* {"document": match[0].strip(), "page": int(match[1])}
CitationOf(match) ==
    [document |-> Strip(match[1]), page |-> ParseNat(match[2], Len(match[2]))]

\* the citations of the matches of one pattern
CitationsOf(matches) == [n \in 1..Len(matches) |-> CitationOf(matches[n])]

RECURSIVE CitationsFrom(_, _)
\* the loop over the patterns, from the k-th on
CitationsFrom(text, k) ==
    IF k > Len(VERIFIER_PATTERNS) THEN <<>>
    ELSE CitationsOf(FindAll(VERIFIER_PATTERNS[k], text)) \o CitationsFrom(text, k + 1)

\* CitationVerifier.extract_citations(response_text)
extract_citations(text) == CitationsFrom(text, 1)

\* the keys of source_lookup: (source_file.lower(), page_number)
SourceLookup(source_nodes) ==
    {<<StrLower(source_nodes[k].source_file), source_nodes[k].page_number>> :
        k \in 1..Len(source_nodes)}

\* found, with the comparison of the pages left out
FoundByName(citation, lookup) ==
    \E key \in lookup :
        \/ Contains(key[1], StrLower(citation.document))
        \/ Contains(StrLower(citation.document), key[1])

\* found: some key matches the document either way and has the page
Found(citation, lookup) ==
    \E key \in lookup :
        /\ \/ Contains(key[1], StrLower(citation.document))
           \/ Contains(StrLower(citation.document), key[1])
        /\ citation.page = key[2]

RECURSIVE CitationsFound(_, _, _, _)
\* the citations whose found equals want, in order
CitationsFound(citations, lookup, want, k) ==
    IF k > Len(citations) THEN <<>>
    ELSE (IF Found(citations[k], lookup) = want THEN <<citations[k]>> ELSE <<>>)
         \o CitationsFound(citations, lookup, want, k + 1)

\* results, the rate being len(verified) / total
VerificationOf(verified, unverified) ==
    [verified |-> verified, unverified |-> unverified,
     verification_rate |-> Frac(Len(verified), Len(verified) + Len(unverified))]

\* CitationVerifier.verify_citations(citations, source_nodes)
CitationVerifier_verify_citations(citations, source_nodes) ==
    IF citations = <<>>
    THEN [verified |-> <<>>, unverified |-> <<>>, verification_rate |-> Frac(0, 1)]
    ELSE VerificationOf(CitationsFound(citations, SourceLookup(source_nodes), TRUE, 1),
                        CitationsFound(citations, SourceLookup(source_nodes), FALSE, 1))

----------------------------------------------------------------------------
(* oncorad/prompt_generator.py: ClinicalPromptGenerator's risk             *)
(* classification.  A patient is [tumor_type, staging, prostate_data];     *)
(* prostate_data is <<>> for None, else one record; the PSA is in ng/mL    *)
(* and percent_positive_cores is -1 for None.                              *)

\* MStage.M1, M1A, M1B, M1C
MetastaticStages == {"M1", "M1a", "M1b", "M1c"}

\* ProstateSpecificData.gleason_score
gleason_score(data) == data.gleason_primary + data.gleason_secondary

\* the number of intermediate-risk factors
IrFactors(t_stage, gleason, psa) ==
    (IF t_stage \in {"T2b", "T2c"} THEN 1 ELSE 0)
        + (IF gleason = 7 THEN 1 ELSE 0)
        + (IF 10 <= psa /\ psa <= 20 THEN 1 ELSE 0)

\* the low-risk block and the final return
LowRisk(t_stage, data) ==
    IF /\ t_stage \in {"T1", "T1a", "T1b", "T1c", "T2", "T2a"}
       /\ gleason_score(data) <= 6
       /\ data.psa < 10
    THEN (IF /\ t_stage = "T1c"
             /\ data.percent_positive_cores > 0
             /\ data.percent_positive_cores < 34
          THEN "muy_bajo" ELSE "bajo")
    ELSE "intermedio_desfavorable"

\* the intermediate-risk block and what follows it
IntermediateRisk(t_stage, data, ir_factors) ==
    IF ir_factors >= 2 \/ (gleason_score(data) = 7 /\ data.gleason_primary = 4)
    THEN "intermedio_desfavorable"
    ELSE IF ir_factors = 1 THEN "intermedio_favorable"
    ELSE LowRisk(t_stage, data)

\* the rules once prostate_data is there
ProstateRisk(t_stage, m_stage, data) ==
    IF m_stage \in MetastaticStages THEN "metastasico"
    ELSE IF t_stage \in {"T3b", "T4", "T4a", "T4b"} THEN "muy_alto"
    ELSE IF data.gleason_primary = 5 THEN "muy_alto"
    ELSE IF t_stage \in {"T3", "T3a"} THEN "alto"
    ELSE IF gleason_score(data) >= 8 THEN "alto"
    ELSE IF data.psa > 20 THEN "alto"
    ELSE IntermediateRisk(t_stage, data,
                          IrFactors(t_stage, gleason_score(data), data.psa))

\* ClinicalPromptGenerator.classify_prostate_risk(patient)
classify_prostate_risk(patient) ==
    IF patient.prostate_data = <<>> THEN "intermedio_desfavorable"
    ELSE ProstateRisk(patient.staging.t_stage, patient.staging.m_stage,
                      patient.prostate_data[1])

\* the generic rules for the other tumours
GenericRisk(t_stage, n_stage, m_stage) ==
    IF m_stage \in MetastaticStages THEN "metastasico"
    ELSE IF t_stage \in {"T3", "T3a", "T3b", "T4", "T4a", "T4b"} THEN "alto"
    ELSE IF n_stage \in {"N2", "N2a", "N2b", "N2c", "N3", "N3a", "N3b"} THEN "alto"
    ELSE IF n_stage = "N1" THEN "intermedio_desfavorable"
    ELSE IF t_stage \in {"T2b", "T2c"} THEN "intermedio_favorable"
    ELSE "bajo"

\* ClinicalPromptGenerator.classify_risk(patient)
classify_risk(patient) ==
    IF patient.tumor_type = "prostata" THEN classify_prostate_risk(patient)
    ELSE GenericRisk(patient.staging.t_stage, patient.staging.n_stage,
                     patient.staging.m_stage)

----------------------------------------------------------------------------
(* The inputs of a call: answers put together from a few parts, and the    *)
(* passage lists a retrieval can hand over.                                *)

\* an answer is made of at most this many parts
MaxParts == 2

Parts ==
    <<"The RTOG-9408 study showed improved survival. ",
      "The FAKE-9999 trial gave 99% cure. Is FAKE-77 real? ",
      "seg^n Nonexistent et al, FAKE-1234 failed.",
      "Quantum physics is unrelated. ",
      "Dose 78 Gy [Fuente: NCCN_Prostate_2024, P@g 45]. ",
      "See [Fuente: Fake.pdf] or [Fuente: Other.pdf, P@g.9]! ",
      "Use 60 Gy [Fuente: ESTRO_Guidelines.pdf, P@g. 12]. ",
      "Ok. ",
      " \n ",
      "Control was 91% at 5 years. ">>

RECURSIVE AnswersOf(_, _)
\* the answers of at most n parts, taken from the k-th part on in the order
\* of the list, a part possibly more than once
AnswersOf(n, k) ==
    IF n = 0 THEN {""}
    ELSE {""} \cup UNION {{Parts[m] \o a : a \in AnswersOf(n - 1, m)} :
                           m \in k..Len(Parts)}

Answers == AnswersOf(MaxParts, 1)

NCCN ==
    [document_name |-> "NCCN_Prostate_2024.pdf", page_number |-> 45,
     text |-> "The RTOG-9408 study showed improved survival with combined treatment."]

ESTRO ==
    [document_name |-> "ESTRO_Guidelines.pdf", page_number |-> 12,
     text |-> "Local control rates of 90% at 5 years have been reported."]

\* a record that came without its fields
Blank == [document_name |-> "", page_number |-> 0, text |-> ""]

\* the same document retrieved at another page
Reprint == [NCCN EXCEPT !.page_number = 7]

ChunkLists == {<<>>, <<NCCN>>, <<Reprint, ESTRO, Blank>>}

Modes == {"flag", "annotate", "remove", "other"}

\* the answer handed to the auditor, and one retrieved passage
AnswerText == "Dose 78 Gy is standard. Always add ADT."

Node ==
    [text |-> "Dose 78 Gy in 39 fractions.", source_file |-> "NCCN_Prostate_2024.pdf",
     page_number |-> 45, guideline_version |-> "2024", cancer_type |-> "prostate",
     similarity_score |-> Frac(9, 10)]

\* QueryResponse(response, source_nodes), as the query engine builds it
QueryResponse(response, source_nodes) == [response |-> PyStr(response), source_nodes |-> source_nodes, is_validated |-> FALSE, validation_notes |-> PyNone]

QueryResponses == {QueryResponse(AnswerText, nodes) : nodes \in {<<>>, <<Node>>}}

\* The auditor's reply is text that nothing constrains. A reply is built
\* from the members the prompt asks for, each present with a value of the
\* asked type, present with another value, or absent ("" below).
StatusValues ==
    {"", "\"valid\"", "\"partially_valid\"", "\"invalid\"", "\"insufficient_evidence\"",
     "\"VALID\"", "null"}

ConfidenceValues == {"", "0.9", "1", "\"0.85\"", "\"high\"", "null"}

\* grounded_claims with the ungrounded_claims that come with it
ClaimLists ==
    {<<"", "">>,
     <<"[\"78 Gy\", \"39 fractions\"]", "[\"Always add ADT\", \"it's standard\"]">>,
     <<"null", "\"ADT\"">>}

\* the last one repeats the answer it was asked to correct
CorrectedValues == {"", "\"\"", "\"Dose 78 Gy.\"", "\"" \o AnswerText \o "\""}

ReasoningValues == {"", "\"ADT is not in the sources.\"", "null"}

\* "key": value, nothing for an absent member
Member(key, value) == IF value = "" THEN <<>> ELSE <<"\"" \o key \o "\": " \o value>>

RECURSIVE Joined(_, _)
\* ", ".join(members[:n])
Joined(members, n) ==
    IF n = 0 THEN ""
    ELSE IF n = 1 THEN members[1]
    ELSE Joined(members, n - 1) \o ", " \o members[n]

ObjectOf(members) == "{" \o Joined(members, Len(members)) \o "}"

\* the objects whose status and confidence_score are among the given ones
ObjectsOf(statuses, confidences) ==
    {ObjectOf(Member("status", s) \o Member("confidence_score", c)
              \o Member("grounded_claims", l[1]) \o Member("ungrounded_claims", l[2])
              \o Member("corrected_response", r) \o Member("reasoning", e)) :
        s \in statuses, c \in confidences, l \in ClaimLists, r \in CorrectedValues,
        e \in ReasoningValues}

Objects == ObjectsOf(StatusValues, ConfidenceValues)

\* the object that holds a status and nothing else
Bare(s) == ObjectOf(Member("status", s))

\* what a chat model puts around the object: prose, or an array
Intact(object) == {"Resultado de la auditoria:\n" \o object \o "\nFin.", "[" \o object \o "]"}

\* how it breaks the object: a brace in the prose after it, the object
\* twice, the last character cut off
Broken(object) ==
    {object \o "\nVer {fuentes}.", object \o " y " \o object, SubSeq(object, 1, Len(object) - 1)}

\* the object as a member of another one
Nested(object) == "{\"resultado\": " \o object \o "}"

\* the object after another status member
Overridden(object) == "{\"status\": \"partially_valid\", " \o SubSeq(object, 2, Len(object))

Wrapped(object) ==
    Intact(object) \cup Broken(object) \cup {Nested(object), Overridden(object)}

NoJson == {"", "No puedo auditar esta respuesta."}

Replies == Objects \cup UNION {Wrapped(Bare(s)) : s \in StatusValues} \cup NoJson

\* what self.llm.complete does in a call
LlmOutcomes == {LlmReturns(reply) : reply \in Replies} \cup {LlmRaises("APIError")}

----------------------------------------------------------------------------
(* The state machine: a checker is constructed, then serves calls.         *)

NoResult ==
    [is_valid |-> TRUE, confidence_score |-> Frac(1, 1), verified_claims |-> <<>>,
     unverified_claims |-> <<>>, potential_hallucinations |-> <<>>,
     citation_errors |-> <<>>, warnings |-> <<>>]

NoQuery == QueryResponse("", <<>>)

\* no call to the validator has been made
NoAudit ==
    /\ submitted = NoQuery
    /\ llm = LlmReturns("")
    /\ query_response = NoQuery
    /\ validation_result = NoVerdict
    /\ raised = ""
    /\ llm_calls = 0

\* no call of a function outside the two state machines is under way
NoCall ==
    /\ arguments = <<>>
    /\ returned = <<>>
    /\ frames = <<>>

\* HallucinationChecker(strict_mode), ResponseSanitizer(checker)
Init ==
    /\ strict_mode \in BOOLEAN
    /\ pc = "idle"
    /\ response_text = ""
    /\ source_chunks = <<>>
    /\ mode = ""
    /\ result = NoResult
    /\ sanitized = ""
    /\ NoAudit
    /\ NoCall

\* checker.validate_response(text, chunks)
ValidateResponse ==
    /\ pc = "idle"
    /\ \E text \in Answers, chunks \in ChunkLists :
          /\ response_text' = text
          /\ source_chunks' = chunks
          /\ result' = validate_response(text, chunks, strict_mode)
    /\ pc' = "validated"
    /\ UNCHANGED <<strict_mode, mode, sanitized>>
    /\ UNCHANGED validator_vars
    /\ UNCHANGED call_vars

\* sanitizer.sanitize(text, chunks, mode)
Sanitize ==
    /\ pc = "idle"
    /\ \E text \in Answers, chunks \in ChunkLists, m \in Modes :
          \E out \in {sanitize(text, chunks, m, strict_mode)} :
              /\ response_text' = text
              /\ source_chunks' = chunks
              /\ mode' = m
              /\ result' = out.validation
              /\ sanitized' = out.text
    /\ pc' = "sanitized"
    /\ UNCHANGED strict_mode
    /\ UNCHANGED validator_vars
    /\ UNCHANGED call_vars

\* sanitizer.sanitize(flagged, chunks, "flag"), flagged being the text that
\* a call in mode "flag" has just returned with the banner in front
SanitizeAgain ==
    /\ pc = "sanitized"
    /\ mode = "flag"
    /\ sanitized # response_text
    /\ \E out \in {sanitize(sanitized, source_chunks, mode, strict_mode)} :
          /\ response_text' = sanitized
          /\ result' = out.validation
          /\ sanitized' = out.text
    /\ pc' = "resanitized"
    /\ UNCHANGED <<strict_mode, source_chunks, mode>>
    /\ UNCHANGED validator_vars
    /\ UNCHANGED call_vars

\* the caller takes the result; the checker is ready for the next call
Return ==
    /\ pc \in {"validated", "sanitized", "resanitized"}
    /\ pc' = "idle"
    /\ response_text' = ""
    /\ source_chunks' = <<>>
    /\ mode' = ""
    /\ result' = NoResult
    /\ sanitized' = ""
    /\ UNCHANGED strict_mode
    /\ UNCHANGED validator_vars
    /\ UNCHANGED call_vars

Next == ValidateResponse \/ Sanitize \/ SanitizeAgain \/ Return

Spec == Init /\ [][Next]_vars

----------------------------------------------------------------------------
(* The state machine of the LLM validator: a ResponseValidator serves      *)
(* calls, each with the QueryResponse the caller submits and what the      *)
(* model does when asked.                                                  *)

\* ResponseValidator(settings); no checker call is under way
ValidatorInit ==
    /\ strict_mode = FALSE
    /\ pc = "idle"
    /\ response_text = ""
    /\ source_chunks = <<>>
    /\ mode = ""
    /\ result = NoResult
    /\ sanitized = ""
    /\ NoAudit
    /\ NoCall

\* validator.validate(query_response)
Validate ==
    /\ pc = "idle"
    /\ \E qr \in QueryResponses, answer \in LlmOutcomes :
          \E out \in {validate(qr, answer)} :
              /\ submitted' = qr
              /\ llm' = answer
              /\ query_response' = qr
              /\ validation_result' = out.result
              /\ raised' = out.raised
              /\ llm_calls' = out.llm_calls
    /\ pc' = "audited"
    /\ UNCHANGED <<strict_mode, response_text, source_chunks, mode, result, sanitized>>
    /\ UNCHANGED call_vars

\* validator.validate_and_correct(query_response)
ValidateAndCorrect ==
    /\ pc = "idle"
    /\ \E qr \in QueryResponses, answer \in LlmOutcomes :
          \E out \in {validate_and_correct(qr, answer)} :
              /\ submitted' = qr
              /\ llm' = answer
              /\ query_response' = out.query_response
              /\ validation_result' = out.validation
              /\ raised' = out.raised
              /\ llm_calls' = out.llm_calls
    /\ pc' = "refined"
    /\ UNCHANGED <<strict_mode, response_text, source_chunks, mode, result, sanitized>>
    /\ UNCHANGED call_vars

\* the caller takes the result or the exception; the validator is ready
\* for the next call
Done ==
    /\ pc \in {"audited", "refined"}
    /\ pc' = "idle"
    /\ submitted' = NoQuery
    /\ llm' = LlmReturns("")
    /\ query_response' = NoQuery
    /\ validation_result' = NoVerdict
    /\ raised' = ""
    /\ llm_calls' = 0
    /\ UNCHANGED <<strict_mode, response_text, source_chunks, mode, result, sanitized>>
    /\ UNCHANGED call_vars

ValidatorNext == Validate \/ ValidateAndCorrect \/ Done

ValidatorSpec == ValidatorInit /\ [][ValidatorNext]_vars

----------------------------------------------------------------------------
(* Properties of the results.  The thresholds, penalties and texts are     *)
(* written out here as the specification states them.                      *)

\* a result has been returned and not yet taken by the caller
Returned == pc \in {"validated", "sanitized", "resanitized"}

\* the number of claims a result accounts for
ClaimCount(r) == Len(r.verified_claims) + Len(r.unverified_claims)

\* confidence_score >= 0.6, at most 2 hallucinations, at most 1 citation error
UnderThresholds(r) ==
    /\ FracGeq(r.confidence_score, Frac(6, 10))
    /\ Len(r.potential_hallucinations) <= 2
    /\ Len(r.citation_errors) <= 1

\* C1, as stated: in every result validate_response returns, the path where
\* no claim is extracted included, is_valid is true only if the confidence is
\* at least 0.6, there are at most 2 potential hallucinations and at most 1
\* citation error.
C1_ValidOnlyUnderThresholds ==
    Returned => (result.is_valid => UnderThresholds(result))

\* C1, amended: is_valid is true only under the three thresholds in every
\* result for an answer with at least one extracted claim; on the path where
\* no claim is extracted is_valid is true with a confidence of 0.5.
C1_ValidOnlyUnderThresholdsWithClaims ==
    Returned =>
        IF ClaimCount(result) > 0
        THEN result.is_valid => UnderThresholds(result)
        ELSE result.is_valid /\ ~FracGeq(result.confidence_score, Frac(6, 10))

\* a valid result for an answer with claims, at the edge of what is_valid
\* allows for citation errors, with a hallucination on top
C1_ValidWithClaims ==
    /\ pc = "validated"
    /\ ClaimCount(result) > 0
    /\ result.is_valid
    /\ Len(result.citation_errors) = 1
    /\ Len(result.potential_hallucinations) >= 1

\* C2: the confidence_score of every result validate_response returns lies in
\* [0, 1], whatever the numbers of claims, verified claims, hallucinations and
\* citation errors.
C2_ConfidenceInUnitInterval ==
    Returned =>
        /\ result.confidence_score.den > 0
        /\ result.confidence_score.num >= 0
        /\ result.confidence_score.num <= result.confidence_score.den

\* more citation errors than claims: they are counted per occurrence
C2_MoreCitationErrorsThanClaims ==
    /\ pc = "validated"
    /\ ClaimCount(result) > 0
    /\ Len(result.citation_errors) > ClaimCount(result)

\* the counts of hallucinations and of citation errors the monotonicity of
\* the confidence is checked up to
MaxCount == 8

\* one more hallucination, or one more citation error, never raises the
\* confidence of total_claims claims of which verified_count are verified
NeverIncreases(total_claims, verified_count) ==
    \A h \in 0..MaxCount, c \in 0..MaxCount :
        /\ FracGeq(Confidence(total_claims, verified_count, h, c),
                   Confidence(total_claims, verified_count, h + 1, c))
        /\ FracGeq(Confidence(total_claims, verified_count, h, c),
                   Confidence(total_claims, verified_count, h, c + 1))

\* a = b for fractions
SameFrac(a, b) == a.num * b.den = b.num * a.den

\* C3: with total_claims and verified_count as in the result, the confidence
\*   clamp(verified_count/total_claims - 0.15*h - 0.10*c, 0, 1)
\* that validate_response computed never increases when the hallucination
\* count h or the citation-error count c increases.
C3_ConfidenceNeverIncreases ==
    Returned /\ ClaimCount(result) > 0 =>
        /\ SameFrac(result.confidence_score,
                    Confidence(ClaimCount(result), Len(result.verified_claims),
                               Len(result.potential_hallucinations),
                               Len(result.citation_errors)))
        /\ NeverIncreases(ClaimCount(result), Len(result.verified_claims))

\* a result with both penalties at work and the clamp not
C3_BothPenalties ==
    /\ pc = "validated"
    /\ Len(result.potential_hallucinations) >= 1
    /\ Len(result.citation_errors) >= 1
    /\ result.confidence_score.num > 0
    /\ result.confidence_score.num < result.confidence_score.den

\* C4: is_valid is false whenever the result lists more than 2 potential
\* hallucinations or more than 1 citation error, whatever the confidence.
C4_InvalidOverCounts ==
    Returned =>
        (Len(result.potential_hallucinations) > 2 \/ Len(result.citation_errors) > 1
            => ~result.is_valid)

\* invalid for its citation errors alone: the confidence is at least 0.6
C4_InvalidDespiteConfidence ==
    /\ pc = "validated"
    /\ Len(result.citation_errors) > 1
    /\ result.potential_hallucinations = <<>>
    /\ FracGeq(result.confidence_score, Frac(6, 10))
    /\ ~result.is_valid

\* the rule for a verified claim: a best word-overlap score of at least 0.3,
\* or at least one inline citation
VerifiedByRule(claim, chunks) ==
    \/ FracGeq(check_factual_support(claim.text, chunks, SupportThreshold).score,
               Frac(3, 10))
    \/ claim.citations # <<>>

\* the result lists the claims with flag TRUE as verified and the others as
\* unverified, each claim in one of the two lists
SplitBy(claims, flags, r) ==
    /\ Len(r.verified_claims) + Len(r.unverified_claims) = Len(claims)
    /\ r.verified_claims = ClaimTexts(claims, flags, TRUE, 1)
    /\ r.unverified_claims = ClaimTexts(claims, flags, FALSE, 1)

SplitByRule(claims, chunks, r) ==
    SplitBy(claims, [k \in 1..Len(claims) |-> VerifiedByRule(claims[k], chunks)], r)

\* C5: every extracted claim is in exactly one of verified_claims and
\* unverified_claims, and it is in verified_claims iff its best word-overlap
\* score is at least 0.3 or it carries at least one inline citation, whether
\* or not the citation matches a passage and whether or not the claim is also
\* listed as a potential hallucination.
C5_VerifiedIffSupportedOrCited ==
    pc = "validated" => SplitByRule(extract_claims(response_text), source_chunks, result)

\* with no passage at all, a claim verified by its citation alone, which
\* matches nothing, and listed as a potential hallucination too
C5_VerifiedByCitationAlone ==
    /\ pc = "validated"
    /\ source_chunks = <<>>
    /\ Len(result.verified_claims) = 1
    /\ result.unverified_claims = <<>>
    /\ Len(result.potential_hallucinations) = 1
    /\ Len(result.citation_errors) >= 1

\* C6: when no claim can be extracted from the answer, validate_response
\* returns, for any passage list, a result with a confidence of exactly 0.5,
\* exactly one warning, empty verified, unverified, hallucination and
\* citation-error lists, and is_valid true.
C6_NoClaimsResult ==
    pc = "validated" /\ extract_claims(response_text) = <<>> =>
        /\ SameFrac(result.confidence_score, Frac(1, 2))
        /\ Len(result.warnings) = 1
        /\ result.verified_claims = <<>>
        /\ result.unverified_claims = <<>>
        /\ result.potential_hallucinations = <<>>
        /\ result.citation_errors = <<>>
        /\ result.is_valid

\* an answer of a segment shorter than 10 characters and white space, checked
\* against passages
C6_ShortAndBlankAnswer ==
    /\ pc = "validated"
    /\ response_text = "Ok.  \n "
    /\ source_chunks # <<>>
    /\ Len(result.warnings) = 1

\* C7, as stated: with an empty passage list and at least one extracted
\* claim, no claim is counted as verified, the confidence is below 0.6 and
\* is_valid is false.
C7_NothingVerifiedWithoutPassages ==
    pc = "validated" /\ source_chunks = <<>> /\ ClaimCount(result) > 0 =>
        /\ result.verified_claims = <<>>
        /\ ~FracGeq(result.confidence_score, Frac(6, 10))
        /\ ~result.is_valid

\* C8: for the modes flag, annotate and remove, if the result sanitize
\* returns lists a potential hallucination, then the warnings are not empty,
\* or the text carries the banner, a NO VERIFICADO marker or the placeholder
\* of a removed claim.
C8_HallucinationNeverUnqualified ==
    pc = "sanitized" /\ mode \in {"flag", "annotate", "remove"}
                     /\ result.potential_hallucinations # <<>> =>
        \/ result.warnings # <<>>
        \/ Contains(sanitized, "#$ ADVERTENCIA: ")
        \/ Contains(sanitized, "[#$ NO VERIFICADO]")
        \/ Contains(sanitized, "[Contenido eliminado por falta de verificaci&n]")

\* a flagged answer that mode remove returns as it came: the warnings alone
\* tell
C8_UnchangedButWarned ==
    /\ pc = "sanitized"
    /\ mode = "remove"
    /\ result.potential_hallucinations # <<>>
    /\ sanitized = response_text
    /\ result.warnings # <<>>

\* C9: whenever is_valid is false the warnings are not empty, also with no
\* hallucination and no citation error.
C9_InvalidIsWarned ==
    Returned /\ ~result.is_valid => result.warnings # <<>>

\* invalid for its low confidence alone, and warned of the low support alone
C9_InvalidWithoutErrors ==
    /\ pc = "validated"
    /\ ~result.is_valid
    /\ result.potential_hallucinations = <<>>
    /\ result.citation_errors = <<>>
    /\ Len(result.warnings) = 1

\* if the validation v of the input is valid and lists no hallucination, the
\* text comes back unchanged, with v
UnchangedWhenClean(v) ==
    v.is_valid /\ v.potential_hallucinations = <<>> =>
        sanitized = response_text /\ result = v

\* C10: if validate_response judges the answer valid and lists no potential
\* hallucination, sanitize returns the input text unchanged, for every mode,
\* with the ValidationResult of the input text.
C10_CleanAnswerUnchanged ==
    pc = "sanitized" =>
        UnchangedWhenClean(validate_response(response_text, source_chunks, strict_mode))

\* a clean answer with verified claims gone through mode flag
C10_CleanAnswerFlagMode ==
    /\ pc = "sanitized"
    /\ mode = "flag"
    /\ result.is_valid
    /\ result.potential_hallucinations = <<>>
    /\ Len(result.verified_claims) >= 1
    /\ sanitized = response_text

\* the banner of mode flag for n potential hallucinations
BannerFor(n) ==
    "\n#$ ADVERTENCIA: Esta respuesta contiene " \o IntToStr(n)
    \o " afirmaciones que no pudieron ser completamente verificadas contra las fuentes.\n\n"

\* C11: in flag mode the returned text is the banner naming the number N of
\* potential hallucinations followed by the unmodified input text iff the
\* validation lists N >= 1 of them; in every other case, an invalid result
\* without hallucinations included, it is the input text.
C11_FlagBannerIffHallucinations ==
    pc = "sanitized" /\ mode = "flag" =>
        IF Len(result.potential_hallucinations) >= 1
        THEN sanitized = BannerFor(Len(result.potential_hallucinations)) \o response_text
        ELSE sanitized = response_text

\* an answer with two potential hallucinations, gone through flag mode: the
\* banner names the two and the input text follows it
C11_FlaggedWithCount ==
    /\ pc = "sanitized"
    /\ mode = "flag"
    /\ Len(result.potential_hallucinations) = 2
    /\ sanitized # response_text
    /\ Len(sanitized) = Len(BannerFor(2)) + Len(response_text)

\* C12, as stated: whenever the result of flag mode has is_valid true, the
\* returned text carries no banner and equals the input text.
C12_ValidNeverFlagged ==
    pc = "sanitized" /\ mode = "flag" /\ result.is_valid =>
        sanitized = response_text /\ ~Contains(sanitized, "ADVERTENCIA")

\* C12, amended: a valid result of flag mode comes with the input text and
\* no banner iff it lists no potential hallucination; a valid result that
\* lists one or two comes with the banner in front of the input text.
C12_ValidUnflaggedIffNoHallucination ==
    pc = "sanitized" /\ mode = "flag" /\ result.is_valid =>
        IF result.potential_hallucinations = <<>>
        THEN sanitized = response_text /\ ~Contains(sanitized, "ADVERTENCIA")
        ELSE /\ Len(result.potential_hallucinations) <= 2
             /\ StartsAt(sanitized, 1, "\n#$ ADVERTENCIA: ")
             /\ Len(sanitized) > Len(response_text)

\* a valid answer with a potential hallucination, flagged
C12_ValidButFlagged ==
    /\ pc = "sanitized"
    /\ mode = "flag"
    /\ result.is_valid
    /\ Len(result.potential_hallucinations) >= 1
    /\ sanitized # response_text

\* C13, as stated: flag mode run on a text that an earlier run of flag mode,
\* with the same passages, returned with the banner in front returns that
\* same text; the banner is not put in front a second time.
C13_FlagIdempotent ==
    pc = "resanitized" => sanitized = response_text

\* the excerpt of every hallucination entry that occurs in the text before
\* is gone from the text after
ExcerptsGone(entries, before, after) ==
    \A n \in 1..Len(entries) :
        Contains(before, ClaimTextOf(entries[n])) => ~Contains(after, ClaimTextOf(entries[n]))

\* C14, as stated: in remove mode the excerpt of every hallucination entry
\* that occurs in the answer is replaced, with its trailing period, by the
\* placeholder and no longer appears in the returned text, wherever the
\* flagged claim stands and whether it ends in '.', '!' or '?'.
C14_RemovedExcerptsGone ==
    pc = "sanitized" /\ mode = "remove" =>
        ExcerptsGone(result.potential_hallucinations, response_text, sanitized)

----------------------------------------------------------------------------
(* The LLM validator (oncorad_rag/validator.py), under ValidatorSpec.      *)
(* What a reply holds is known from the way it was built, not from the     *)
(* parser.                                                                 *)

\* validate has handed the reply of the model to the parser
ReplyParsed == pc = "audited" /\ submitted.source_nodes # <<>> /\ llm.raised = ""

\* the replies that hold a JSON object whose status is "valid": the object
\* alone, in prose, in an array, or with a second status member that the
\* decoder lets win
SayValid ==
    ObjectsOf({"\"valid\""}, ConfidenceValues) \cup Intact(Bare("\"valid\""))
    \cup {Overridden(Bare("\"valid\""))}

\* the replies without a JSON object, and those whose span from the first
\* opening brace to the last closing one is no JSON
Unreadable ==
    NoJson \cup UNION {Broken(Bare(s)) : s \in StatusValues} \cup {Overridden(Bare(""))}

\* the replies that hold a JSON object whose status is absent or is none of
\* the four allowed strings
StatusNotAllowed ==
    ObjectsOf({"", "\"VALID\"", "null"}, ConfidenceValues)
    \cup UNION {Intact(Bare(s)) : s \in {"", "\"VALID\"", "null"}}
    \cup {Nested(Bare(s)) : s \in StatusValues}
    \cup {Overridden(Bare(s)) : s \in {"\"VALID\"", "null"}}

\* two values of one kind that are the same
SameValue(a, b) == a.kind = b.kind /\ a.val = b.val

\* the distrustful verdict: invalid, confidence 0, no corrected answer, one
\* unsupported claim that tells of the parse failure
IsDistrustful(v) ==
    /\ v.status = "invalid"
    /\ v.confidence_score.num = 0
    /\ v.corrected_response.kind = "none"
    /\ v.ungrounded_claims.kind = "list"
    /\ Len(v.ungrounded_claims.val) = 1
    /\ SameValue(v.ungrounded_claims.val[1], PyStr("Error al parsear la validaci&n"))

IllFormed == Unreadable \cup ObjectsOf(StatusValues, {"\"high\"", "null"})

\* C16, as stated: the parser returns a verdict for every reply and never
\* raises; a reply that is ill-formed (no JSON object, malformed JSON, a
\* confidence_score that is null or a non-numeric string) gets the
\* distrustful verdict.
C16_ParserNeverRaises ==
    ReplyParsed =>
        /\ raised = ""
        /\ llm.reply \in IllFormed => IsDistrustful(validation_result)

\* C17: with no source passage validate returns insufficient_evidence with
\* confidence 0 and the model is never asked; validate_and_correct then
\* leaves the answer text as it was and attaches the insufficient-evidence
\* note.
C17_NoPassagesNoCall ==
    pc \in {"audited", "refined"} /\ submitted.source_nodes = <<>> =>
        /\ raised = ""
        /\ llm_calls = 0
        /\ validation_result.status = "insufficient_evidence"
        /\ validation_result.confidence_score.num = 0
        /\ pc = "refined" =>
              /\ SameValue(query_response.response, submitted.response)
              /\ SameValue(query_response.validation_notes,
                           PyStr("# Evidencia insuficiente en las fuentes disponibles."))

\* validate_and_correct without passages while the model is down: the call
\* returns with the note, the failure never shows
C17_NoPassagesModelDown ==
    /\ pc = "refined"
    /\ submitted.source_nodes = <<>>
    /\ llm.raised # ""
    /\ raised = ""
    /\ llm_calls = 0
    /\ query_response.validation_notes.kind = "str"

\* the verdicts on which the answer is kept
KeepsAnswer(v) ==
    \/ v.status \in {"valid", "insufficient_evidence"}
    \/ v.status = "partially_valid" /\ ~Truthy(v.corrected_response)

\* C18, as stated: after validate_and_correct returns, the answer text is
\* the original one iff the status is valid, insufficient_evidence, or
\* partially_valid without a non-empty corrected answer; for partially_valid
\* with a corrected answer the text is that corrected answer; and
\* validation_notes is set in every case.
C18_OriginalIffKept ==
    pc = "refined" /\ raised = "" =>
        /\ SameValue(query_response.response, submitted.response)
              <=> KeepsAnswer(validation_result)
        /\ validation_result.status = "partially_valid"
              /\ Truthy(validation_result.corrected_response)
              => SameValue(query_response.response, validation_result.corrected_response)
        /\ query_response.validation_notes.kind = "str"

\* C18, amended: after validate_and_correct returns, the answer text is the
\* original one whenever the status is valid (a corrected answer that comes
\* with a valid verdict is ignored), insufficient_evidence, or
\* partially_valid without a non-empty corrected answer; for partially_valid
\* with a non-empty corrected answer it is exactly that corrected answer; in
\* every other case it is the corrected answer or the refusal message, so
\* that it equals the original only when that replacement repeats it; and
\* validation_notes is set in every case.
C18_OriginalWhenKept ==
    pc = "refined" /\ raised = "" =>
        /\ KeepsAnswer(validation_result)
              => SameValue(query_response.response, submitted.response)
        /\ validation_result.status = "partially_valid"
              /\ Truthy(validation_result.corrected_response)
              => SameValue(query_response.response, validation_result.corrected_response)
        /\ ~KeepsAnswer(validation_result) =>
              IF Truthy(validation_result.corrected_response)
              THEN SameValue(query_response.response, validation_result.corrected_response)
              ELSE /\ query_response.response.kind = "str"
                   /\ StartsAt(query_response.response.val, 1, "No se puede proporcionar")
        /\ query_response.validation_notes.kind = "str"
        /\ query_response.validation_notes.val # ""

\* a valid verdict that comes with a corrected answer: the answer is kept
C18_CorrectedAnswerIgnored ==
    /\ pc = "refined"
    /\ raised = ""
    /\ validation_result.status = "valid"
    /\ Truthy(validation_result.corrected_response)
    /\ ~SameValue(validation_result.corrected_response, submitted.response)
    /\ SameValue(query_response.response, submitted.response)
    /\ query_response.validation_notes.kind = "str"

\* C19, as stated: whenever the verdict is invalid, validate_and_correct
\* does not leave the original answer text: the answer is the corrected
\* answer if a non-empty one came with the verdict, and otherwise the
\* refusal message with the auditor's reasoning in it.
C19_InvalidNeverOriginal ==
    pc = "refined" /\ validation_result.status = "invalid" =>
        /\ ~SameValue(query_response.response, submitted.response)
        /\ IF Truthy(validation_result.corrected_response)
           THEN SameValue(query_response.response, validation_result.corrected_response)
           ELSE /\ query_response.response.kind = "str"
                /\ StartsAt(query_response.response.val, 1, RefusalText)

\* C20: when the call to the model raises during validate or
\* validate_and_correct, the exception reaches the caller, no verdict is
\* produced, and the QueryResponse is as it was handed in: answer text,
\* is_validated and validation_notes.
C20_ModelFailurePropagates ==
    pc \in {"audited", "refined"} /\ submitted.source_nodes # <<>> /\ llm.raised # "" =>
        /\ raised = llm.raised
        /\ validation_result.status = ""
        /\ query_response = submitted
        /\ ~query_response.is_validated
        /\ query_response.validation_notes.kind = "none"

\* validate_and_correct left by the exception of the model
C20_RaisedInValidateAndCorrect ==
    /\ pc = "refined"
    /\ submitted.source_nodes # <<>>
    /\ llm.raised = "APIError"
    /\ raised = "APIError"
    /\ llm_calls = 1
    /\ query_response = submitted

\* C21, as stated: is_validated is true only for an answer that passed the
\* validation; after validate_and_correct has returned with a verdict that
\* is invalid, partially_valid or insufficient_evidence (no passage and
\* unreadable reply included), the QueryResponse is not marked as validated.
C21_ValidatedOnlyWhenPassed ==
    pc = "refined" /\ raised = ""
        /\ validation_result.status \in {"invalid", "partially_valid", "insufficient_evidence"}
        => ~query_response.is_validated

\* C22, as stated: validate_and_correct does not modify the answer object
\* the caller passed in; after the call the caller's QueryResponse holds the
\* answer text, is_validated and validation_notes it held before, and the
\* same source passages.
C22_CallerObjectUntouched ==
    pc = "refined" =>
        /\ SameValue(query_response.response, submitted.response)
        /\ query_response.is_validated = submitted.is_validated
        /\ SameValue(query_response.validation_notes, submitted.validation_notes)
        /\ query_response.source_nodes = submitted.source_nodes

----------------------------------------------------------------------------
(* Claims about the citation matchers.                                     *)

\* the rule for a valid citation: some passage has a non-empty document name
\* that, lowercased, contains the trimmed lowercased reference or is
\* contained in it
ValidByRule(citation, chunks) ==
    \E k \in 1..Len(chunks) :
        /\ chunks[k].document_name # ""
        /\ \/ Contains(StrLower(chunks[k].document_name), StrLower(Strip(citation[1])))
           \/ Contains(StrLower(Strip(citation[1])), StrLower(chunks[k].document_name))

\* the positions of the citations the rule calls invalid
InvalidByRule(cits, chunks) == {k \in 1..Len(cits) : ~ValidByRule(cits[k], chunks)}

\* the passages, each said to be at page p
AtPage(chunks, p) == [k \in 1..Len(chunks) |-> [chunks[k] EXCEPT !.page_number = p]]

\* the citations, each with page reference p
CitingPage(cits, p) == [k \in 1..Len(cits) |-> <<cits[k][1], p>>]

\* the invalid citations of the returned result are those of the rule, for
\* the passages as they are, at any other page, and whatever page is cited
ClassifiedByRule(cits, chunks, r) ==
    /\ Len(r.citation_errors) = Cardinality(InvalidByRule(cits, chunks))
    /\ \A k \in 1..Len(cits) :
          ValidByRule(cits[k], chunks)
              <=> (CitationLabel(cits[k]) \o " (documento no encontrado)")
                      \notin Range(r.citation_errors)
    /\ \A p \in {0, 1, 45} :
          VerifyAll(cits, AvailableDocs(AtPage(chunks, p))).invalid = r.citation_errors
    /\ \A p \in {"", "1", "45"} :
          Len(VerifyAll(CitingPage(cits, p), AvailableDocs(chunks)).invalid)
              = Len(r.citation_errors)
    /\ (\A k \in 1..Len(chunks) : chunks[k].document_name = "")
          => Len(r.citation_errors) = Len(cits)

\* C24: verify_citations classifies a citation occurrence as valid iff its
\* trimmed, lowercased document reference is a substring of some available
\* (non-empty, lowercased) passage document name or some available document
\* name is a substring of it; the cited page never affects the
\* classification, and with no available document name every citation is
\* invalid.
C24_ValidIffNameMatches ==
    pc = "validated" =>
        ClassifiedByRule(AllCitations(extract_claims(response_text), 1), source_chunks, result)

\* a citation of page 45 found valid against the document retrieved at page
\* 7, next to two citations of documents that were not retrieved
C24_ValidAtAnotherPage ==
    /\ pc = "validated"
    /\ source_chunks # <<>> /\ source_chunks[1] = Reprint
    /\ Len(AllCitations(extract_claims(response_text), 1)) = 3
    /\ Len(result.citation_errors) = 2
    /\ \E c \in Range(AllCitations(extract_claims(response_text), 1)) :
          c[2] = "45" /\ ValidByRule(c, source_chunks)

\* the lowercased passage texts, joined
Corpus(chunks) == SourceText(chunks)

\* some mentioned study is not named in the passages
StudyMissing(claim, corpus) ==
    \E study \in claim.studies_mentioned : ~Contains(corpus, StrLower(study))

\* the first token of some mentioned author, longer than 3 characters, is
\* absent from the passages
AuthorMissing(claim, corpus) ==
    \E author \in claim.authors :
        /\ Len(FirstWord(StrLower(author))) > 3
        /\ ~Contains(corpus, FirstWord(StrLower(author)))

\* some statistic is found neither literally nor as int(value - 1),
\* int(value), int(value + 1)
StatisticMissing(claim, corpus) ==
    \E stat \in claim.statistics :
        /\ ~Contains(corpus, stat)
        /\ ~Contains(corpus, IntToStr(IntOfStatPlus(stat, -1)))
        /\ ~Contains(corpus, IntToStr(IntOfStatPlus(stat, 0)))
        /\ ~Contains(corpus, IntToStr(IntOfStatPlus(stat, 1)))

\* the rule for a claim with an issue
HasIssue(claim, corpus, strict) ==
    \/ StudyMissing(claim, corpus)
    \/ AuthorMissing(claim, corpus)
    \/ strict /\ StatisticMissing(claim, corpus)

\* the positions of the claims with an issue
WithIssue(claims, corpus, strict) ==
    {k \in 1..Len(claims) : HasIssue(claims[k], corpus, strict)}

\* the n-th entry is about the n-th claim with an issue: as many claims with
\* an issue come before position k as entries come before entry n
EntryOf(claims, flagged, entries) ==
    /\ Len(entries) = Cardinality(flagged)
    /\ \A k \in flagged :
          entries[Cardinality({m \in flagged : m <= k})].head
              = Prefix(claims[k].text, ExcerptLen) \o "... - Problemas: "

\* C28: detect_potential_hallucinations returns, in claim order, exactly one
\* entry for each claim that has at least one issue and no entry for a claim
\* with none; a claim has an issue iff a mentioned study is not named in the
\* lowercased passage texts, or a mentioned author's first token (longer than
\* 3 characters) is absent from them, or, in strict mode only, a statistic is
\* found there neither literally nor as int(value - 1), int(value),
\* int(value + 1).  An inline citation never suppresses an entry, and in
\* non-strict mode a statistic never raises one.
C28_OneEntryPerClaimWithIssue ==
    pc = "validated" =>
        EntryOf(extract_claims(response_text),
                WithIssue(extract_claims(response_text), Corpus(source_chunks), strict_mode),
                result.potential_hallucinations)

\* in non-strict mode, a claim whose statistics are not in the passages and
\* that is not reported
C28_StatisticNotReported ==
    /\ pc = "validated"
    /\ ~strict_mode
    /\ result.potential_hallucinations = <<>>
    /\ \E k \in 1..Len(extract_claims(response_text)) :
          StatisticMissing(extract_claims(response_text)[k], Corpus(source_chunks))

\* two claims of which the first has no issue and the second, whose study is
\* unknown to the passages, has one
C28_SecondClaimReported ==
    /\ pc = "validated"
    /\ source_chunks # <<>>
    /\ Len(extract_claims(response_text)) = 2
    /\ WithIssue(extract_claims(response_text), Corpus(source_chunks), strict_mode) = {2}
    /\ Len(result.potential_hallucinations) = 1

----------------------------------------------------------------------------
(* Claims about the validity rule of validate_response.                    *)

\* with total claims, three or more of them reported, the confidence is at
\* most 0.55 whatever the number of verified claims and of citation errors
CappedAt55(total) ==
    \A verified \in 0..total, h \in 3..total, c \in 0..MaxCount :
        FracGeq(Frac(55, 100), Confidence(total, verified, h, c))

\* C30: in every validate_response result with at least one extracted claim,
\* confidence_score >= 0.6 implies hallucination_count <= 2: three or more
\* entries cap the confidence at 0.55 and there is at most one entry per
\* claim, so the hallucination-count conjunct never changes is_valid on its
\* own (is_valid is confidence >= 0.6 and at most 1 citation error), whereas
\* the citation-error conjunct does.
C30_ConfidentMeansFewHallucinations ==
    pc = "validated" /\ ClaimCount(result) >= 1 =>
        /\ FracGeq(result.confidence_score, Frac(6, 10))
              => Len(result.potential_hallucinations) <= 2
        /\ Len(result.potential_hallucinations) >= 3
              => FracGeq(Frac(55, 100), result.confidence_score)
        /\ Len(result.potential_hallucinations) <= ClaimCount(result)
        /\ CappedAt55(ClaimCount(result))
        /\ result.is_valid
              <=> (FracGeq(result.confidence_score, Frac(6, 10))
                      /\ Len(result.citation_errors) <= 1)

\* three claims, each of them reported
C30_ThreeHallucinations ==
    /\ pc = "validated"
    /\ ClaimCount(result) = 3
    /\ Len(result.potential_hallucinations) = 3
    /\ ~result.is_valid

\* the citation-error conjunct alone decides: no hallucination, exactly two
\* citation errors, a confidence of at least 0.6, and an invalid result
C30_CitationErrorsDecide ==
    /\ pc = "validated"
    /\ ClaimCount(result) >= 1
    /\ result.potential_hallucinations = <<>>
    /\ Len(result.citation_errors) = 2
    /\ FracGeq(result.confidence_score, Frac(6, 10))
    /\ ~result.is_valid

----------------------------------------------------------------------------
(* The functions that keep no state between calls, each called with        *)
(* arguments drawn from small sets: specification CallSpec.                *)

\* claim_text of check_factual_support
ClaimSentences ==
    {"", "Ok is it", "Dose 78 Gy is standard", "Local control rates improved",
     "The RTOG-9408 study showed improved survival"}

\* a passage of two words
Short == [document_name |-> "Notes.pdf", page_number |-> 1, text |-> "Local control"]

Passages == {NCCN, ESTRO, Blank, Short}

\* the longest passage list handed to check_factual_support
MaxPassages == 2

PassageLists == UNION {[1..n -> Passages] : n \in 0..MaxPassages}

\* threshold of check_factual_support: the default and three others
Thresholds == {SupportThreshold, Frac(0, 1), Frac(1, 2), Frac(1, 1)}

\* the canonical inline citation
Canonical(doc, page) == "[Fuente: " \o doc \o ", P@g. " \o page \o "]"

\* the document names and the pages an answer cites
CitedDocs == {"NCCN_Prostate.pdf", "ESTRO_Guidelines"}

CitedPages == {"45", "7"}

\* the canonical citation and other ways of writing one
CitationForms(doc, page) ==
    {Canonical(doc, page),
     "[Fuente: " \o doc \o ", P@g." \o page \o "]",
     "[Fuente: " \o doc \o ", p@gina " \o page \o "]",
     "[" \o doc \o ", p. " \o page \o "]",
     "(" \o doc \o ", page " \o page \o ")",
     "Fuente: " \o doc \o ", P " \o page,
     "[Fuente: " \o doc \o "]"}

\* what follows the citation in the answer
Endings == {"", ".", ". The target is the prostate alone."}

\* answers that carry a citation
CitingAnswers ==
    {"The recommended dose is 78 Gy " \o form \o ending :
        form \in UNION {CitationForms(doc, page) : doc \in CitedDocs, page \in CitedPages},
        ending \in Endings}

\* the citations handed to CitationVerifier.verify_citations
CitationDicts ==
    {[document |-> doc, page |-> page] :
        doc \in {"NCCN_Prostate_2024", "nccn", "ESTRO_Guidelines.pdf (2023)", "Fake.pdf", ""},
        page \in {45, 7}}

\* the longest citation list
MaxCitations == 2

CitationLists == UNION {[1..n -> CitationDicts] : n \in 0..MaxCitations}

\* retrieved passages: the one of the auditor's call, the same document at
\* another page and under another spelling, and another document
NodeAtPage7 == [Node EXCEPT !.page_number = 7, !.source_file = "nccn_prostate_2024.PDF"]

EstroNode == [Node EXCEPT !.page_number = 7, !.source_file = "ESTRO_Guidelines.pdf"]

NodeLists == {<<>>, <<Node>>, <<Node, EstroNode>>, <<Node, NodeAtPage7, Node>>}

\* ProstateSpecificData(psa, gleason_primary, gleason_secondary, percent_positive_cores)
ProstateData ==
    [psa : {5, 15, 50}, gleason_primary : {3, 4, 5}, gleason_secondary : {3, 4},
     percent_positive_cores : {-1, 20}]

\* PatientData: the fields the classification reads
Patients ==
    [tumor_type : {"prostata", "pulmon"},
     staging : [t_stage : {"T1c", "T2", "T2b", "T3a", "T4"},
                n_stage : {"N0", "N1", "N2"},
                m_stage : {"Mx", "M0", "M1", "M1a", "M1b", "M1c"}],
     prostate_data : {<<>>} \cup {<<data>> : data \in ProstateData}]

\* a call is under way: the name of the function in pc, its arguments and
\* what it returned
CallInit ==
    /\ strict_mode = FALSE
    /\ pc = "idle"
    /\ response_text = ""
    /\ source_chunks = <<>>
    /\ mode = ""
    /\ result = NoResult
    /\ sanitized = ""
    /\ NoAudit
    /\ NoCall

\* checker.check_factual_support(claim_text, source_chunks, threshold)
CheckFactualSupport ==
    /\ pc = "idle"
    /\ \E claim_text \in ClaimSentences, chunks \in PassageLists, threshold \in Thresholds :
          /\ arguments' = [claim_text |-> claim_text, source_chunks |-> chunks,
                           threshold |-> threshold]
          /\ returned' = check_factual_support(claim_text, chunks, threshold)
    /\ pc' = "check_factual_support"
    /\ UNCHANGED <<strict_mode, response_text, source_chunks, mode, result, sanitized>>
    /\ UNCHANGED <<validator_vars, frames>>

\* checker.extract_claims(text)
ExtractClaims ==
    /\ pc = "idle"
    /\ \E text \in CitingAnswers :
          /\ arguments' = [text |-> text]
          /\ returned' = extract_claims(text)
    /\ pc' = "extract_claims"
    /\ UNCHANGED <<strict_mode, response_text, source_chunks, mode, result, sanitized>>
    /\ UNCHANGED <<validator_vars, frames>>

\* CitationVerifier.extract_citations(response_text)
ExtractCitations ==
    /\ pc = "idle"
    /\ \E text \in CitingAnswers :
          /\ arguments' = [response_text |-> text]
          /\ returned' = extract_citations(text)
    /\ pc' = "extract_citations"
    /\ UNCHANGED <<strict_mode, response_text, source_chunks, mode, result, sanitized>>
    /\ UNCHANGED <<validator_vars, frames>>

\* CitationVerifier.verify_citations(citations, source_nodes)
VerifyCitations ==
    /\ pc = "idle"
    /\ \E citations \in CitationLists, nodes \in NodeLists :
          /\ arguments' = [citations |-> citations, source_nodes |-> nodes]
          /\ returned' = CitationVerifier_verify_citations(citations, nodes)
    /\ pc' = "verify_citations"
    /\ UNCHANGED <<strict_mode, response_text, source_chunks, mode, result, sanitized>>
    /\ UNCHANGED <<validator_vars, frames>>

\* generator.classify_prostate_risk(patient)
ClassifyProstateRisk ==
    /\ pc = "idle"
    /\ \E patient \in Patients :
          /\ arguments' = [patient |-> patient]
          /\ returned' = classify_prostate_risk(patient)
    /\ pc' = "classify_prostate_risk"
    /\ UNCHANGED <<strict_mode, response_text, source_chunks, mode, result, sanitized>>
    /\ UNCHANGED <<validator_vars, frames>>

\* generator.classify_risk(patient)
ClassifyRisk ==
    /\ pc = "idle"
    /\ \E patient \in Patients :
          /\ arguments' = [patient |-> patient]
          /\ returned' = classify_risk(patient)
    /\ pc' = "classify_risk"
    /\ UNCHANGED <<strict_mode, response_text, source_chunks, mode, result, sanitized>>
    /\ UNCHANGED <<validator_vars, frames>>

\* the caller takes what the function returned
Taken ==
    /\ pc \in {"check_factual_support", "extract_claims", "extract_citations",
               "verify_citations", "classify_prostate_risk", "classify_risk"}
    /\ pc' = "idle"
    /\ arguments' = <<>>
    /\ returned' = <<>>
    /\ UNCHANGED <<strict_mode, response_text, source_chunks, mode, result, sanitized>>
    /\ UNCHANGED <<validator_vars, frames>>

CallNext ==
    \/ CheckFactualSupport
    \/ ExtractClaims
    \/ ExtractCitations
    \/ VerifyCitations
    \/ ClassifyProstateRisk
    \/ ClassifyRisk
    \/ Taken

CallSpec == CallInit /\ [][CallNext]_vars

----------------------------------------------------------------------------
(* Claims about check_factual_support.                                     *)

\* words a passage may gain
ExtraWords == {"it", "dose", "control", "survival", "standard"}

\* the passages with word w added to the text of the k-th
WithWord(chunks, k, w) == [chunks EXCEPT ![k].text = @ \o " " \o w]

\* the score of the claim of the call under way against other passages
ScoreAgainst(chunks) ==
    check_factual_support(arguments.claim_text, chunks, arguments.threshold).score

\* no evidence takes the score below that of the call under way
NeverLess(chunks) ==
    /\ \A k \in 1..Len(chunks), w \in ExtraWords :
          FracGeq(ScoreAgainst(WithWord(chunks, k, w)), returned.score)
    /\ \A p \in Passages :
          /\ FracGeq(ScoreAgainst(chunks \o <<p>>), returned.score)
          /\ FracGeq(ScoreAgainst(<<p>> \o chunks), returned.score)

\* no passage shares a word longer than 3 characters with the claim
NothingShared(claim_text, chunks) ==
    \A k \in 1..Len(chunks) : LongWords(claim_text) \cap LongWords(chunks[k].text) = {}

\* C29: check_factual_support is monotonic in the evidence: for a fixed claim,
\* adding a word to a passage or a passage to the list never decreases the
\* score; the score is in [0, 1], is 0 with no excerpt when the claim has no
\* word longer than 3 characters or no passage shares a word with it, and
\* is_supported holds iff score >= threshold.
C29_MonotonicInEvidence ==
    pc = "check_factual_support" =>
        /\ NeverLess(arguments.source_chunks)
        /\ returned.score.num >= 0 /\ returned.score.num <= returned.score.den
        /\ NothingShared(arguments.claim_text, arguments.source_chunks)
              => returned.score.num = 0 /\ returned.chunk = <<>>
        /\ returned.is_supported
              <=> returned.score.num * arguments.threshold.den
                      >= arguments.threshold.num * returned.score.den

\* a claim supported in part, that one more word in a passage supports more,
\* and that a passage sharing nothing with it, put last, leaves as it is
C29_MoreWordsMoreSupport ==
    /\ pc = "check_factual_support"
    /\ returned.score.num > 0
    /\ \E k \in 1..Len(arguments.source_chunks), w \in ExtraWords :
          ~FracGeq(returned.score, ScoreAgainst(WithWord(arguments.source_chunks, k, w)))
    /\ ScoreAgainst(arguments.source_chunks \o <<Blank>>) = returned.score

----------------------------------------------------------------------------
(* Claims about CitationVerifier and the risk classification.              *)

\* the rule of the auditor path: some node's file name matches the document
\* either way, case ignored, and that node's page is the cited one
MatchesNode(citation, source_nodes) ==
    \E n \in 1..Len(source_nodes) :
        /\ \/ Contains(StrLower(source_nodes[n].source_file), StrLower(citation.document))
           \/ Contains(StrLower(citation.document), StrLower(source_nodes[n].source_file))
        /\ source_nodes[n].page_number = citation.page

\* the positions of the citations the rule accepts
Accepted(citations, source_nodes) ==
    {k \in 1..Len(citations) : MatchesNode(citations[k], source_nodes)}

\* every citation is in one list only, the one the rule names
PlacedByRule(citations, source_nodes, r) ==
    /\ Len(r.verified) = Cardinality(Accepted(citations, source_nodes))
    /\ Len(r.verified) + Len(r.unverified) = Len(citations)
    /\ \A k \in 1..Len(citations) :
          IF MatchesNode(citations[k], source_nodes)
          THEN citations[k] \in Range(r.verified) /\ citations[k] \notin Range(r.unverified)
          ELSE citations[k] \in Range(r.unverified) /\ citations[k] \notin Range(r.verified)

\* verification_rate is |verified| / |citations|, and 0.0 without citations
RateByRule(citations, r) ==
    IF citations = <<>> THEN r.verification_rate.num = 0
    ELSE r.verification_rate.num * Len(citations)
            = Len(r.verified) * r.verification_rate.den

\* C25: CitationVerifier.verify_citations places every citation in exactly
\* one of verified / unverified; a citation is verified iff some source
\* node's file name matches the cited document by case-insensitive substring
\* in either direction and that same node's page number equals the cited
\* page; verification_rate is |verified| / |citations|, 0.0 with no citation.
C25_VerifiedIffNameAndPage ==
    pc = "verify_citations" =>
        /\ PlacedByRule(arguments.citations, arguments.source_nodes, returned)
        /\ RateByRule(arguments.citations, returned)

\* two citations of the retrieved document, one of the page retrieved and
\* verified, the other of another page and unverified: a rate of one half
C25_RightNameWrongPage ==
    /\ pc = "verify_citations"
    /\ arguments.source_nodes = <<Node>>
    /\ Len(returned.verified) = 1
    /\ Len(returned.unverified) = 1
    /\ StrLower(returned.unverified[1].document) = StrLower(returned.verified[1].document)
    /\ returned.verification_rate = Frac(1, 2)

\* the citation (doc, page) is among the citation tuples of some claim
InClaims(claims, doc, page) ==
    \E k \in 1..Len(claims) : <<doc, page>> \in Range(claims[k].citations)

\* the citation (doc, page) is among the extracted citations
InCitations(citations, doc, page) ==
    [document |-> doc, page |-> ParseNat(page, Len(page))] \in Range(citations)

\* C26, as stated: a citation written in the canonical inline format
\* [Fuente: <document-name>, P@g. <page-number>] is recognised by the citation
\* extraction of both paths: extract_claims and
\* CitationVerifier.extract_citations each extract the pair (document-name,
\* page-number) from an answer that carries it.
C26_CanonicalRecognised ==
    \A doc \in CitedDocs, page \in CitedPages :
        /\ pc = "extract_claims" /\ Contains(arguments.text, Canonical(doc, page))
              => InClaims(returned, doc, page)
        /\ pc = "extract_citations" /\ Contains(arguments.response_text, Canonical(doc, page))
              => InCitations(returned, doc, page)

\* extract_claims cuts the canonical citation at the full stop of P@g. and
\* finds no citation in the answer
C26_LostByChecker ==
    /\ pc = "extract_claims"
    /\ \E doc \in CitedDocs, page \in CitedPages :
          arguments.text = "The recommended dose is 78 Gy " \o Canonical(doc, page) \o "."
    /\ \A k \in 1..Len(returned) : returned[k].citations = <<>>

\* extract_citations finds no citation in the answer with the canonical one
C26_LostByVerifier ==
    /\ pc = "extract_citations"
    /\ \E doc \in CitedDocs, page \in CitedPages :
          arguments.response_text
              = "The recommended dose is 78 Gy " \o Canonical(doc, page) \o "."
    /\ returned = <<>>

\* other ways of writing the citation are recognised: by extract_claims
\* without the space after P@g., by extract_citations with p@gina
C26_OtherFormsRecognised ==
    \/ pc = "extract_claims" /\ InClaims(returned, "NCCN_Prostate.pdf", "45")
    \/ pc = "extract_citations" /\ InCitations(returned, "Fuente: NCCN_Prostate.pdf", "45")

\* C27, as stated: classify_prostate_risk, and classify_risk for a prostate
\* tumour, return METASTATIC for every patient whose M stage is M1, M1a, M1b
\* or M1c, whatever the T stage, PSA and Gleason values and whether or not
\* prostate-specific data is present.
C27_MetastaticTakesPrecedence ==
    /\ pc = "classify_prostate_risk" /\ arguments.patient.staging.m_stage \in MetastaticStages
          => returned = "metastasico"
    /\ pc = "classify_risk" /\ arguments.patient.tumor_type = "prostata"
                            /\ arguments.patient.staging.m_stage \in MetastaticStages
          => returned = "metastasico"

\* with the prostate-specific data present the metastatic patient is
\* classified as such, whatever the other values
C27_MetastaticWithData ==
    pc \in {"classify_prostate_risk", "classify_risk"}
        /\ arguments.patient.tumor_type = "prostata"
        /\ arguments.patient.prostate_data # <<>>
        /\ arguments.patient.staging.m_stage \in MetastaticStages
        => returned = "metastasico"

\* a prostate patient with M1b and no prostate-specific data, classified as
\* intermediate unfavourable by classify_risk
C27_MetastaticWithoutData ==
    /\ pc = "classify_risk"
    /\ arguments.patient.tumor_type = "prostata"
    /\ arguments.patient.prostate_data = <<>>
    /\ arguments.patient.staging.m_stage = "M1b"
    /\ returned = "intermedio_desfavorable"

----------------------------------------------------------------------------
(* Several callers on one HallucinationChecker and one ResponseSanitizer,  *)
(* as ClinicalReasoningEngine holds them: specification ConcurrentSpec.    *)
(* The object has one field, strict_mode; everything else a call works on  *)
(* is local to it and kept in the caller's frame.  A call advances by      *)
(* steps, and the steps of different callers interleave in any order.      *)

\* the number of callers
MaxCallers == 2

Callers == 1..MaxCallers

\* what the callers ask: the method, the answer and the passages
Requests ==
    {[op |-> op, text |-> input[1], chunks |-> input[2]] :
        op \in {"validate_response", "sanitize"},
        input \in {<<Parts[10], <<NCCN>>>>, <<Parts[2] \o Parts[5], <<>>>>}}

\* the frame of a caller that is in no call
IdleFrame ==
    [pc |-> "idle", op |-> "", text |-> "", chunks |-> <<>>, claims |-> <<>>,
     flags |-> <<>>, validation |-> NoResult, sanitized |-> ""]

\* the locals of another call, seen in place of one's own
FirstFrame(fs, caller) == fs[1]

\* the locals of the call of a caller: every name validate_response and
\* sanitize assign is local, and result is a new ValidationResult
OwnFrame(fs, caller) == fs[caller]

\* HallucinationChecker(strict_mode=...), ResponseSanitizer(checker)
ConcurrentInit ==
    /\ strict_mode \in BOOLEAN
    /\ pc = "idle"
    /\ response_text = ""
    /\ source_chunks = <<>>
    /\ mode = ""
    /\ result = NoResult
    /\ sanitized = ""
    /\ NoAudit
    /\ arguments = <<>>
    /\ returned = <<>>
    /\ frames = [c \in Callers |-> IdleFrame]

\* the frame of caller c becomes fr, nothing else changes
Step(c, fr) ==
    /\ frames' = [frames EXCEPT ![c] = fr]
    /\ UNCHANGED <<checker_vars, validator_vars, arguments, returned>>

\* caller c enters validate_response or sanitize (which calls
\* validate_response first)
Call(c) ==
    /\ frames[c].pc = "idle"
    /\ \E request \in Requests :
          Step(c, [IdleFrame EXCEPT !.pc = "extract_claims", !.op = request.op,
                                    !.text = request.text, !.chunks = request.chunks])

\* claims = self.extract_claims(response_text); without claims the result is
\* returned at once
Extract(c) ==
    /\ frames[c].pc = "extract_claims"
    /\ \E claims \in {extract_claims(OwnFrame(frames, c).text)} :
          Step(c, IF claims = <<>>
                  THEN [frames[c] EXCEPT !.pc = "validated", !.validation = NoClaimsResult]
                  ELSE [frames[c] EXCEPT !.pc = "check_factual_support", !.claims = claims])

\* the citations are verified and each claim is put in one of the two lists
Support(c) ==
    /\ frames[c].pc = "check_factual_support"
    /\ \E own \in {OwnFrame(frames, c)} :
          Step(c, [frames[c] EXCEPT
                      !.pc = "detect_potential_hallucinations",
                      !.flags = [k \in 1..Len(own.claims) |->
                                    IsVerified(own.claims[k], own.chunks)]])

\* the hallucinations are detected, which reads self.strict_mode, and the
\* score, the validity and the warnings are computed
Detect(c) ==
    /\ frames[c].pc = "detect_potential_hallucinations"
    /\ \E own \in {OwnFrame(frames, c)} :
          Step(c, [frames[c] EXCEPT
                      !.pc = "validated",
                      !.validation =
                          ClaimsResult(own.claims, own.chunks, own.flags,
                                       detect_potential_hallucinations(
                                           own.claims, own.chunks, strict_mode))])

\* validate_response returns: to the caller, or to sanitize, which puts the
\* banner of mode "flag" on the text and returns
Finish(c) ==
    /\ frames[c].pc = "validated"
    /\ \E own \in {OwnFrame(frames, c)} :
          Step(c, [frames[c] EXCEPT
                      !.pc = "returned",
                      !.sanitized =
                          IF frames[c].op = "sanitize"
                          THEN SanitizeWith(own.text, "flag", own.validation).text
                          ELSE ""])

\* the caller takes the result
Leave(c) ==
    /\ frames[c].pc = "returned"
    /\ Step(c, IdleFrame)

ConcurrentNext ==
    \E c \in Callers :
        Call(c) \/ Extract(c) \/ Support(c) \/ Detect(c) \/ Finish(c) \/ Leave(c)

ConcurrentSpec == ConcurrentInit /\ [][ConcurrentNext]_vars

\* what the call of frame fr returns when it runs alone
Alone(fr) ==
    IF fr.op = "sanitize"
    THEN sanitize(fr.text, fr.chunks, "flag", strict_mode)
    ELSE [validation |-> validate_response(fr.text, fr.chunks, strict_mode), text |-> ""]

\* every call that has returned has returned what it returns alone
ReturnedAsAlone ==
    \A c \in Callers :
        frames[c].pc = "returned" =>
            /\ frames[c].validation = Alone(frames[c]).validation
            /\ frames[c].sanitized = Alone(frames[c]).text

\* C23: validation calls are independent under concurrency: when several
\* callers invoke validate_response / sanitize concurrently on one shared
\* HallucinationChecker and ResponseSanitizer, then for every interleaving
\* each call returns exactly the result it would return when run alone, and
\* strict_mode, the checker's only state, is never written after construction.
C23_CallsIndependent ==
    [](ReturnedAsAlone) /\ [][strict_mode' = strict_mode]_vars

\* two calls under way at once on different answers: one has returned while
\* the other, entered before that, has still to detect its hallucinations
C23_TwoCallsInFlight ==
    /\ frames[1].pc = "returned"
    /\ frames[1].op = "sanitize"
    /\ frames[2].pc = "detect_potential_hallucinations"
    /\ frames[2].text # frames[1].text
    /\ frames[1].validation.potential_hallucinations # <<>>

====
